---- MODULE Spec2Model ----
EXTENDS Integers, Sequences, FiniteSets, TLC

(***************************************************************************)
(* Task extraction pipeline and Notion persistence mapper of my-pa.        *)
(*                                                                         *)
(* Strings are sequences of one-character strings, so that toLowerCase,    *)
(* trim, includes and slice are computed and not assumed.  The JavaScript  *)
(* value undefined of an optional string is the sequence Undefined, which  *)
(* no string equals (its only element is not a character).                 *)
(***************************************************************************)

Undefined == <<"undefined">>

UpperChars == <<"A","B","C","D","E","F","G","H","I","J","K","L","M","N","O","P","Q","R","S","T","U","V","W","X","Y","Z">>

LowerChars == <<"a","b","c","d","e","f","g","h","i","j","k","l","m","n","o","p","q","r","s","t","u","v","w","x","y","z">>

DigitChars == <<"0","1","2","3","4","5","6","7","8","9">>

SpaceChars == {" ", "\t", "\n"}

Range(f) == {f[i] : i \in DOMAIN f}

toLowerChar(c) ==
    IF c \in Range(UpperChars)
    THEN LowerChars[CHOOSE i \in DOMAIN UpperChars : UpperChars[i] = c]
    ELSE c

toLowerCase(s) == [i \in 1..Len(s) |-> toLowerChar(s[i])]

RECURSIVE trimStart(_)
trimStart(s) ==
    IF s # <<>> /\ Head(s) \in SpaceChars THEN trimStart(Tail(s)) ELSE s

RECURSIVE trimEnd(_)
trimEnd(s) ==
    IF s # <<>> /\ s[Len(s)] \in SpaceChars
    THEN trimEnd(SubSeq(s, 1, Len(s) - 1))
    ELSE s

trim(s) == trimEnd(trimStart(s))

startsWith(s, prefix) ==
    Len(prefix) <= Len(s) /\ SubSeq(s, 1, Len(prefix)) = prefix

includes(s, sub) ==
    \E i \in 0..(Len(s) - Len(sub)) : SubSeq(s, i + 1, i + Len(sub)) = sub

slice(s, n) == SubSeq(s, 1, IF Len(s) < n THEN Len(s) ELSE n)

\* value?.toLowerCase().trim(): optional chaining keeps undefined
lowerTrim(value) == IF value = Undefined THEN Undefined ELSE trim(toLowerCase(value))

(***************************************************************************)
(* taskSchemas: the enumerations and the input schema.  A JSON value of    *)
(* the model's answer is a record tagged by its JavaScript type.           *)
(***************************************************************************)

priorityValues == << <<"L","o","w">>, <<"M","e","d","i","u","m">>, <<"H","i","g","h">>, <<"U","r","g","e","n","t">> >>

statusValues == << <<"N","o","t"," ","S","t","a","r","t","e","d">>, <<"I","n"," ","P","r","o","g","r","e","s","s">>, <<"B","l","o","c","k","e","d">>, <<"D","o","n","e">> >>

effortValues == << <<"S">>, <<"M">>, <<"L">> >>

JUndef == [t |-> "undefined"]

JNull == [t |-> "null"]

JStr(s) == [t |-> "string", v |-> s]

JNum(digits) == [t |-> "number", v |-> digits]

JArr(items) == [t |-> "array", v |-> items]

\* String(item ?? ""): the JavaScript string conversion of a JSON value
String(item) ==
    CASE item.t \in {"undefined", "null"} -> <<>>
      [] item.t \in {"string", "number"} -> item.v
      [] item.t = "object" -> <<"[","o","b","j","e","c","t"," ","O","b","j","e","c","t","]">>
      [] OTHER -> <<>>

\* z.preprocess((v) => (v == null ? undefined : v), z.string().optional())
toOptionalStringOk(raw) == raw.t \in {"undefined", "null", "string"}

toOptionalString(raw) == IF raw.t = "string" THEN raw.v ELSE Undefined

RECURSIVE normalizeSubtaskInputs(_)
RECURSIVE cleanItems(_)
cleanItems(items) ==
    IF items = <<>> THEN <<>>
    ELSE LET item == Head(items)
             usable == item.t = "object" /\ item.title.t = "string"
                       /\ Len(trim(item.title.v)) > 0
             subtasks == IF item.t = "object"
                         THEN normalizeSubtaskInputs(item.subtasks)
                         ELSE JUndef
             cleaned ==
                 IF item.t = "string" THEN [t |-> "object", title |-> item,
                        description |-> JUndef, dueDate |-> JUndef,
                        priority |-> JUndef, status |-> JUndef,
                        effort |-> JUndef, taskType |-> JUndef,
                        subtasks |-> JUndef]
                 ELSE IF usable
                 THEN [item EXCEPT !.subtasks =
                           IF subtasks.t = "undefined" THEN item.subtasks ELSE subtasks]
                 ELSE [t |-> "object",
                       title |-> JStr(IF trim(String(item)) # <<>>
                                      THEN trim(String(item))
                                      ELSE <<"U","n","t","i","t","l","e","d"," ","s","u","b","t","a","s","k">>),
                       description |-> JUndef, dueDate |-> JUndef,
                       priority |-> JUndef, status |-> JUndef,
                       effort |-> JUndef, taskType |-> JUndef,
                       subtasks |-> JUndef]
         IN <<cleaned>> \o cleanItems(Tail(items))

normalizeSubtaskInputs(value) ==
    IF value.t # "array" THEN JUndef ELSE JArr(cleanItems(value.v))

\* parsedTaskInputSchema: whether a JSON value passes validation ...
RECURSIVE parsedTaskInputSchemaOk(_)
parsedTaskInputSchemaOk(raw) ==
    /\ raw.t = "object"
    /\ raw.title.t = "string"
    /\ \A f \in {"description", "dueDate", "priority", "status", "effort", "taskType"} :
           toOptionalStringOk(raw[f])
    /\ LET subs == normalizeSubtaskInputs(raw.subtasks)
       IN subs.t = "array" =>
              \A i \in DOMAIN subs.v : parsedTaskInputSchemaOk(subs.v[i])

\* ... and the ParsedTaskInput it yields
RECURSIVE parsedTaskInputSchema(_)
parsedTaskInputSchema(raw) ==
    LET subs == normalizeSubtaskInputs(raw.subtasks)
    IN [title |-> raw.title.v,
        description |-> toOptionalString(raw.description),
        dueDate |-> toOptionalString(raw.dueDate),
        priority |-> toOptionalString(raw.priority),
        status |-> toOptionalString(raw.status),
        effort |-> toOptionalString(raw.effort),
        taskType |-> toOptionalString(raw.taskType),
        subtasks |-> IF subs.t = "array"
                     THEN JArr([i \in DOMAIN subs.v |-> parsedTaskInputSchema(subs.v[i])])
                     ELSE JUndef]

(***************************************************************************)
(* Dates.  A Date is a calendar day [y, m, d] with a time of day kept as   *)
(* the text after the day ("T00:00:00.000Z" at the start of a day); the    *)
(* process runs with the UTC time zone, so local and UTC days coincide.    *)
(***************************************************************************)

isLeapYear(y) == ((y % 4) = 0 /\ (y % 100) # 0) \/ (y % 400) = 0

daysInMonth(y, m) ==
    IF m = 2 THEN (IF isLeapYear(y) THEN 29 ELSE 28)
    ELSE IF m \in {4, 6, 9, 11} THEN 30 ELSE 31

\* Date normalisation after setDate/setMonth: overflowing days carry into months
RECURSIVE normalizeDate(_)
normalizeDate(dt) ==
    IF dt.m > 12 THEN normalizeDate([dt EXCEPT !.y = dt.y + 1, !.m = dt.m - 12])
    ELSE IF dt.d > daysInMonth(dt.y, dt.m)
    THEN normalizeDate([dt EXCEPT !.m = dt.m + 1, !.d = dt.d - daysInMonth(dt.y, dt.m)])
    ELSE dt

\* days from 2026-01-01 (a Thursday) to the first day of month m of year y
RECURSIVE daysBefore(_, _)
daysBefore(y, m) ==
    IF y = 2026 /\ m = 1 THEN 0
    ELSE IF m = 1 THEN daysBefore(y - 1, 12) + 31
    ELSE daysBefore(y, m - 1) + daysInMonth(y, m - 1)

\* a faulty variant of getDay: the ISO weekday, 1 = Monday .. 7 = Sunday
isoWeekday(dt) == ((3 + daysBefore(dt.y, dt.m) + dt.d - 1) % 7) + 1

\* Date.prototype.getDay: 0 = Sunday .. 6 = Saturday
getDay(dt) == (4 + daysBefore(dt.y, dt.m) + dt.d - 1) % 7

setDate(dt, d) == normalizeDate([dt EXCEPT !.d = d])

setMonth(dt, m) == normalizeDate([dt EXCEPT !.m = m])

digits2(n) == <<DigitChars[((n \div 10) % 10) + 1], DigitChars[(n % 10) + 1]>>

digits4(n) == digits2(n \div 100) \o digits2(n % 100)

midnight == <<"T","0","0",":","0","0",":","0","0",".","0","0","0","Z">>

\* Date.prototype.toISOString
toISOString(dt) ==
    digits4(dt.y) \o <<"-">> \o digits2(dt.m) \o <<"-">> \o digits2(dt.d) \o dt.time

isDigit(c) == c \in Range(DigitChars)

digitValue(c) == (CHOOSE i \in DOMAIN DigitChars : DigitChars[i] = c) - 1

number(s) ==
    IF Len(s) = 2 THEN 10 * digitValue(s[1]) + digitValue(s[2])
    ELSE 1000 * digitValue(s[1]) + 100 * digitValue(s[2]) + 10 * digitValue(s[3]) + digitValue(s[4])

\* whether new Date(value) is a valid date: the ISO forms YYYY-MM-DD and
\* YYYY-MM-DDTHH:MM:SS.mmmZ of an existing calendar day
dateParses(value) ==
    /\ Len(value) \in {10, 24}
    /\ \A i \in {1, 2, 3, 4, 6, 7, 9, 10} : isDigit(value[i])
    /\ value[5] = "-" /\ value[8] = "-"
    /\ number(SubSeq(value, 6, 7)) \in 1..12
    /\ number(SubSeq(value, 9, 10)) \in
           1..daysInMonth(number(SubSeq(value, 1, 4)), number(SubSeq(value, 6, 7)))
    /\ Len(value) = 24 =>
           /\ value[11] = "T" /\ value[14] = ":" /\ value[17] = ":"
           /\ value[20] = "." /\ value[24] = "Z"
           /\ \A i \in {12, 13, 15, 16, 18, 19, 21, 22, 23} : isDigit(value[i])
           /\ number(SubSeq(value, 12, 13)) < 24
           /\ number(SubSeq(value, 15, 16)) < 60
           /\ number(SubSeq(value, 18, 19)) < 60

newDate(value) ==
    [y |-> number(SubSeq(value, 1, 4)),
     m |-> number(SubSeq(value, 6, 7)),
     d |-> number(SubSeq(value, 9, 10)),
     time |-> IF Len(value) = 24 THEN SubSeq(value, 11, 24) ELSE midnight]

startOfDay(dt) == toISOString([dt EXCEPT !.time = midnight])

parseNaturalDate(value, now) ==
    LET lower == trim(toLowerCase(value))
    IN IF lower = <<"t","o","d","a","y">>
          \/ includes(lower, <<"b","y"," ","t","o","d","a","y">>)
       THEN startOfDay(now)
       ELSE IF lower = <<"t","o","m","o","r","r","o","w">>
               \/ includes(lower, <<"b","y"," ","t","o","m","o","r","r","o","w">>)
       THEN startOfDay(setDate(now, now.d + 1))
       ELSE IF includes(lower, <<"n","e","x","t"," ","w","e","e","k">>)
       THEN startOfDay(setDate(now, now.d + 7))
       ELSE IF includes(lower, <<"n","e","x","t"," ","m","o","n","t","h">>)
       THEN startOfDay(setMonth(now, now.m + 1))
       ELSE IF includes(lower, <<"t","h","i","s"," ","w","e","e","k">>)
       THEN startOfDay(setDate(now, now.d + (7 - getDay(now))))
       ELSE Undefined

\* a faulty variant of normalizeDueDate: the string is kept as given
dueDateAsGiven(value, now) == value

normalizeDueDate(value, now) ==
    IF value = Undefined \/ value = <<>> THEN Undefined
    ELSE IF parseNaturalDate(value, now) # Undefined THEN parseNaturalDate(value, now)
    ELSE IF ~dateParses(value) THEN Undefined
    ELSE toISOString(newDate(value))

(***************************************************************************)
(* Field defaulting (taskPipeline).                                        *)
(***************************************************************************)

\* a faulty variant of normalizePriority: the value is passed through as given
rawPriority(value) == value

normalizePriority(value) ==
    LET v == lowerTrim(value)
    IN IF v = <<"u","r","g","e","n","t">> THEN priorityValues[4]
       ELSE IF v = <<"h","i","g","h">> THEN priorityValues[3]
       ELSE IF v = <<"m","e","d","i","u","m">> \/ v = <<"m","e","d">> THEN priorityValues[2]
       ELSE priorityValues[1]

normalizeStatus(value) ==
    LET v == lowerTrim(value)
    IN IF v = <<"i","n"," ","p","r","o","g","r","e","s","s">>
          \/ v = <<"d","o","i","n","g">> \/ v = <<"w","o","r","k","i","n","g">>
       THEN statusValues[2]
       ELSE IF v = <<"b","l","o","c","k","e","d">> THEN statusValues[3]
       ELSE IF v = <<"d","o","n","e">> \/ v = <<"c","o","m","p","l","e","t","e","d">>
               \/ v = <<"c","o","m","p","l","e","t","e">>
       THEN statusValues[4]
       ELSE statusValues[1]

\* a faulty variant of normalizeEffort: the value is compared as given
effortAsGiven(value) ==
    IF value = <<"m">> \/ value = <<"m","e","d","i","u","m">> \/ value = <<"m","e","d">>
    THEN effortValues[2]
    ELSE IF value = <<"l">> \/ value = <<"l","a","r","g","e">> \/ value = <<"h","i","g","h">>
            \/ value = <<"b","i","g">>
    THEN effortValues[3]
    ELSE effortValues[1]

normalizeEffort(value) ==
    LET v == lowerTrim(value)
    IN IF v = <<"m">> \/ v = <<"m","e","d","i","u","m">> \/ v = <<"m","e","d">>
       THEN effortValues[2]
       ELSE IF v = <<"l">> \/ v = <<"l","a","r","g","e">> \/ v = <<"h","i","g","h">>
               \/ v = <<"b","i","g">>
       THEN effortValues[3]
       ELSE effortValues[1]

\* a faulty variant of defaultTaskType: every task type becomes "Task"
alwaysTask(taskType) == <<"T","a","s","k">>

\* task.taskType ?? "Task": only undefined (null was mapped to it) is replaced
defaultTaskType(taskType) ==
    IF taskType = Undefined THEN <<"T","a","s","k">> ELSE taskType

RECURSIVE applyDefaults(_, _)
applyDefaults(task, now) ==
    [title |-> task.title,
     description |-> task.description,
     dueDate |-> normalizeDueDate(task.dueDate, now),
     priority |-> normalizePriority(task.priority),
     status |-> normalizeStatus(task.status),
     effort |-> normalizeEffort(task.effort),
     taskType |-> defaultTaskType(task.taskType),
     subtasks |-> IF task.subtasks.t = "array"
                  THEN [i \in DOMAIN task.subtasks.v |-> applyDefaults(task.subtasks.v[i], now)]
                  ELSE <<>>]

(***************************************************************************)
(* NotionTaskRepo: the schema cache and the name resolution.  A schema is  *)
(* the sequence of its properties [name, type, options] in declared order; *)
(* cachedProperties is JNull or [t |-> "object", v |-> schema]; the name   *)
(* index is the sequence of its entries [norm, name] in insertion order.   *)
(***************************************************************************)

Null == <<"null">>

normalizePropertyKey(name) ==
    LET lower == toLowerCase(name)
        noSeparators == SelectSeq(lower, LAMBDA c : c \notin SpaceChars \cup {"_", "-"})
        lettersAndDigits == SelectSeq(noSeparators,
            LAMBDA c : c \in Range(LowerChars) \cup Range(DigitChars))
    IN trim(lettersAndDigits)

hasProperty(properties, name) == \E i \in DOMAIN properties : properties[i].name = name

propertyNamed(properties, name) ==
    properties[CHOOSE i \in DOMAIN properties : properties[i].name = name]

\* Object.keys(properties).reduce((acc, key) => { acc[normalize(key)] = key; ... }, {})
\* a faulty variant of indexNames: no name is entered in the index
noNames(acc, properties) == acc

RECURSIVE indexNames(_, _)
indexNames(acc, properties) ==
    IF properties = <<>> THEN acc
    ELSE LET key == Head(properties).name
             norm == normalizePropertyKey(key)
         IN indexNames(
                IF \E i \in DOMAIN acc : acc[i].norm = norm
                THEN [i \in DOMAIN acc |->
                          IF acc[i].norm = norm THEN [norm |-> norm, name |-> key] ELSE acc[i]]
                ELSE Append(acc, [norm |-> norm, name |-> key]),
                Tail(properties))

\* a faulty variant of findRelationProperty: no candidate is ever found
noRelationProperty(properties) == Null

findRelationProperty(properties) ==
    LET candidates == << <<"P","a","r","e","n","t"," ","t","a","s","k">>,
                         <<"P","a","r","e","n","t"," ","T","a","s","k">>,
                         <<"P","a","r","e","n","t">> >>
        hits == {i \in DOMAIN candidates :
                     /\ hasProperty(properties, candidates[i])
                     /\ propertyNamed(properties, candidates[i]).type = "relation"}
    IN IF hits = {} THEN Null
       ELSE candidates[CHOOSE i \in hits : \A j \in hits : i <= j]

\* the three fields of the repo after a response [properties] is cached
cacheOf(properties) ==
    [cachedProperties |-> [t |-> "object", v |-> properties],
     normalizedPropertyNames |-> indexNames(<<>>, properties),
     parentRelationProperty |-> findRelationProperty(properties)]

cachedSchema(repo) ==
    IF repo.cachedProperties.t = "object" THEN repo.cachedProperties.v ELSE <<>>

\* a faulty variant of resolvePropertyName: the loop alone, without the lookup
firstPartialMatch(repo, desiredName) ==
    LET index == repo.normalizedPropertyNames
        normalized == normalizePropertyKey(desiredName)
        partial == SelectSeq([i \in DOMAIN index |-> i],
                             LAMBDA i : \/ includes(index[i].norm, normalized)
                                        \/ includes(normalized, index[i].norm))
    IN IF partial = <<>> THEN JNull
       ELSE [t |-> "object", name |-> index[partial[1]].name,
             property |-> propertyNamed(cachedSchema(repo), index[partial[1]].name)]

resolvePropertyName(repo, desiredName) ==
    LET index == repo.normalizedPropertyNames
        named(properties, name) ==
            [t |-> "object", name |-> name, property |-> propertyNamed(properties, name)]
        \* the loop over the index: the first key that contains or is contained
        partialMatch(properties, partial) ==
            IF partial # <<>> /\ hasProperty(properties, index[partial[1]].name)
            THEN named(properties, index[partial[1]].name)
            ELSE JNull
        \* normalizedPropertyNames.get(normalized), then the loop
        lookup(properties, normalized, exact) ==
            IF exact # <<>> /\ exact[1].name # <<>> /\ hasProperty(properties, exact[1].name)
            THEN named(properties, exact[1].name)
            ELSE partialMatch(properties,
                     SelectSeq([i \in DOMAIN index |-> i],
                               LAMBDA i : \/ includes(index[i].norm, normalized)
                                          \/ includes(normalized, index[i].norm)))
        search(normalized) ==
            lookup(cachedSchema(repo), normalized,
                   SelectSeq(index, LAMBDA entry : entry.norm = normalized))
    IN search(normalizePropertyKey(desiredName))

getPropertyType(repo, propName) ==
    LET typeOf(resolved) ==
            IF resolved.t = "object" THEN resolved.property.type ELSE "undefined"
    IN typeOf(resolvePropertyName(repo, propName))

\* a faulty variant of fallbackPropertyByType: the first property of the type,
\* however many there are
firstOfType(repo, desiredType) ==
    LET properties == cachedSchema(repo)
        entries == {i \in DOMAIN properties : properties[i].type = desiredType}
    IN IF entries # {}
       THEN LET i == CHOOSE i \in entries : \A j \in entries : i <= j
            IN [t |-> "object", name |-> properties[i].name, property |-> properties[i]]
       ELSE JNull

fallbackPropertyByType(repo, desiredType) ==
    LET properties == cachedSchema(repo)
        entries == {i \in DOMAIN properties : properties[i].type = desiredType}
    IN IF repo.cachedProperties.t = "object" /\ Cardinality(entries) = 1
       THEN LET i == CHOOSE i \in entries : TRUE
            IN [t |-> "object", name |-> properties[i].name, property |-> properties[i]]
       ELSE JNull

(***************************************************************************)
(* ensureSelectOption up to its first external call: what it returns, or   *)
(* the call it issues and what it returns after it.                        *)
(***************************************************************************)

\* a faulty variant of hasOption: every option is taken to be missing
noOption(options, optionName) == FALSE

\* a faulty variant of hasOption: every option is taken to exist already
anyOption(options, optionName) == TRUE

\* options.some((opt) => opt.name === optionName)
hasOption(options, optionName) == \E i \in DOMAIN options : options[i] = optionName

\* a faulty variant of restrictsOptionUpdates: status properties are updated too
neverRestricts(type) == FALSE

\* Notion restricts status option updates
restrictsOptionUpdates(type) == type = "status"

\* a faulty variant of updatedOptions: the list sent holds the new option alone
onlyNewOption(options, optionName) == <<optionName>>

\* options: [...options, { name: optionName }]
updatedOptions(options, optionName) == Append(options, optionName)

ensureSelectOption(repo, propName, optionName) ==
    LET desiredType(lowerName) ==
            IF includes(lowerName, <<"s","t","a","t","u","s">>) THEN "status"
            ELSE IF includes(lowerName, <<"t","y","p","e">>) THEN "multi_select"
            ELSE "undefined"
        \* resolvePropertyName(propName) ?? fallbackPropertyByType(desiredType)
        orFallback(byName, type) ==
            IF byName.t = "object" \/ type = "undefined" THEN byName
            ELSE fallbackPropertyByType(repo, type)
        decide(name, prop, bound) ==
            IF prop.type \notin {"select", "multi_select", "status"}
            THEN [kind |-> "return", value |-> bound]
            ELSE IF hasOption(prop.options, optionName)
            THEN [kind |-> "return", value |-> bound]
            ELSE IF restrictsOptionUpdates(prop.type)
            THEN [kind |-> "return", value |-> bound]
            ELSE [kind |-> "update", value |-> bound, property |-> name, type |-> prop.type,
                  options |-> updatedOptions(prop.options, optionName)]
        with(resolved) ==
            IF resolved.t = "null"
            THEN [kind |-> "return",
                  value |-> [name |-> optionName, propertyName |-> Undefined,
                             propertyType |-> "undefined"]]
            ELSE decide(resolved.name, resolved.property,
                        [name |-> optionName, propertyName |-> resolved.name,
                         propertyType |-> resolved.property.type])
    IN IF optionName = Undefined \/ optionName = <<>>
       THEN [kind |-> "return",
             value |-> [name |-> Undefined, propertyName |-> Undefined, propertyType |-> "undefined"]]
       ELSE IF repo.cachedProperties.t = "null"
       THEN [kind |-> "retrieve"]
       ELSE with(orFallback(resolvePropertyName(repo, propName),
                            desiredType(toLowerCase(propName))))

(***************************************************************************)
(* createTask.  A request runs createTask as a stack of frames, one per    *)
(* tree node being created; a frame's stage is the ensureSelectOption call *)
(* it is at (1..4), the pages.create call (5) or the loop over its         *)
(* subtasks (6).  The page payload is the sequence of its entries          *)
(* [key, shape, value] in insertion order.                                 *)
(***************************************************************************)

MaxTextLength == 2000

logicalNames == << <<"S","t","a","t","u","s">>, <<"P","r","i","o","r","i","t","y">>,
                   <<"T","a","s","k"," ","t","y","p","e">>,
                   <<"E","f","f","o","r","t"," ","l","e","v","e","l">> >>

optionField(task, k) ==
    CASE k = 1 -> task.status
      [] k = 2 -> task.priority
      [] k = 3 -> task.taskType
      [] k = 4 -> task.effort

\* properties[key] = value
setProperty(properties, key, shape, value) ==
    LET entry == [key |-> key, shape |-> shape, value |-> value]
    IN IF \E i \in DOMAIN properties : properties[i].key = key
       THEN [i \in DOMAIN properties |->
                 IF properties[i].key = key THEN entry ELSE properties[i]]
       ELSE Append(properties, entry)

defaultTypeFor(name) ==
    LET typeFor(lower) ==
            IF includes(lower, <<"s","t","a","t","u","s">>) THEN "status"
            ELSE IF includes(lower, <<"t","y","p","e">>) THEN "multi_select"
            ELSE "undefined"
    IN typeFor(toLowerCase(name))

\* the value shape createTask writes for an ensureSelectOption result
shapeFor(type) ==
    IF type = "multi_select" THEN "multi_select"
    ELSE IF type = "status" THEN "status"
    ELSE "select"

\* a faulty variant of writeOption: the entry is written whatever was returned
writeAlways(frame, result) ==
    [frame EXCEPT
        !.properties = setProperty(@, logicalNames[frame.stage], "select", result.name),
        !.stage = @ + 1]

writeOption(frame, result) ==
    LET logical == logicalNames[frame.stage]
        key == IF result.propertyName # Undefined THEN result.propertyName ELSE logical
        type == IF result.propertyType # "undefined" THEN result.propertyType
                ELSE IF frame.types[frame.stage] # "undefined" THEN frame.types[frame.stage]
                ELSE defaultTypeFor(key)
    IN [frame EXCEPT
           !.properties = IF result.name # Undefined /\ result.name # <<>>
                          THEN setProperty(@, key, shapeFor(type), result.name)
                          ELSE @,
           !.stage = @ + 1]

beginTask(repo, task, path, parentPageId) ==
    LET named == <<[key |-> <<"T","a","s","k"," ","n","a","m","e">>, shape |-> "title",
                    value |-> slice(task.title, MaxTextLength)]>>
    IN [task |-> task, path |-> path, parentPageId |-> parentPageId, stage |-> 1,
        types |-> [k \in 1..4 |-> getPropertyType(repo, logicalNames[k])],
        sourceType |-> getPropertyType(repo, <<"S","o","u","r","c","e">>),
        properties |->
            IF task.description # Undefined /\ task.description # <<>>
            THEN Append(named, [key |-> <<"D","e","s","c","r","i","p","t","i","o","n">>,
                                shape |-> "rich_text",
                                value |-> slice(task.description, MaxTextLength)])
            ELSE named,
        pageId |-> Null, url |-> <<>>, children |-> <<>>]

\* the Source, Due date and parent relation entries, written before pages.create
finishPayload(repo, frame, source) ==
    LET sourceName == <<"S","o","u","r","c","e">>
        withSource(sourceKey) ==
            IF source = Undefined \/ source = <<>> THEN frame.properties
            ELSE IF sourceKey.t = "object"
                    /\ sourceKey.property.type \in {"multi_select", "select", "status"}
            THEN setProperty(frame.properties, sourceKey.name, sourceKey.property.type, source)
            ELSE IF frame.sourceType \in {"multi_select", "select", "status"}
            THEN setProperty(frame.properties, sourceName, frame.sourceType, source)
            ELSE setProperty(frame.properties, sourceName, "rich_text", source)
        withDue(properties) ==
            IF frame.task.dueDate # Undefined /\ frame.task.dueDate # <<>>
            THEN setProperty(properties, <<"D","u","e"," ","d","a","t","e">>, "date",
                             frame.task.dueDate)
            ELSE properties
        withParent(properties) ==
            IF frame.parentPageId # Null /\ repo.parentRelationProperty # Null
            THEN setProperty(properties, repo.parentRelationProperty, "relation",
                             frame.parentPageId)
            ELSE properties
    IN withParent(withDue(withSource(resolvePropertyName(repo, sourceName))))

NoCall == [kind |-> "none"]

\* a faulty variant of childParentId: the subtask is given its parent's parent
grandParentId(frame) == frame.parentPageId

\* the parent id createTask passes to the createTask of a subtask: page.id
childParentId(frame) == frame.pageId

\* the subtasks createTask loops over, in the order it creates them
childOrder(task) == task.subtasks

\* a faulty variant of createdTask: the created subtasks are not collected
createdWithoutSubtasks(frame) ==
    [id |-> frame.pageId, url |-> frame.url, task |-> frame.task, subtasks |-> <<>>]

createdTask(frame) ==
    [id |-> frame.pageId, url |-> frame.url, task |-> frame.task, subtasks |-> frame.children]

\* A request q = [pc, tasks, source, results, stack, error] runs from where it
\* is to its next external call (or to its end); nothing else runs in between.
RECURSIVE runRequest(_, _)
runRequest(q, repo) ==
    IF q.stack = <<>>
    THEN IF Len(q.results) >= Len(q.tasks)
         THEN [q |-> [q EXCEPT !.pc = "done"], call |-> NoCall]
         ELSE runRequest([q EXCEPT !.stack = <<beginTask(repo, q.tasks[Len(q.results) + 1],
                                                          <<Len(q.results) + 1>>, Null)>>], repo)
    ELSE LET n == Len(q.stack)
             frame == q.stack[n]
         IN IF frame.stage \in 1..4
            THEN LET ensured == ensureSelectOption(repo, logicalNames[frame.stage],
                                                   optionField(frame.task, frame.stage))
                 IN IF ensured.kind = "return"
                    THEN runRequest([q EXCEPT !.stack[n] = writeOption(frame, ensured.value)], repo)
                    ELSE IF ensured.kind = "retrieve"
                    THEN [q |-> q, call |-> [kind |-> "retrieve", state |-> "sent"]]
                    ELSE [q |-> q,
                          call |-> [kind |-> "update", state |-> "sent",
                                    property |-> ensured.property, type |-> ensured.type,
                                    options |-> ensured.options, value |-> ensured.value]]
            ELSE IF frame.stage = 5
            THEN [q |-> q,
                  call |-> [kind |-> "create", state |-> "sent", path |-> frame.path,
                            parentPageId |-> frame.parentPageId,
                            properties |-> finishPayload(repo, frame, q.source)]]
            ELSE IF Len(frame.children) < Len(frame.task.subtasks)
            THEN runRequest([q EXCEPT !.stack = Append(@,
                     beginTask(repo, childOrder(frame.task)[Len(frame.children) + 1],
                               Append(frame.path, Len(frame.children) + 1),
                               childParentId(frame)))], repo)
            ELSE IF n = 1
            THEN runRequest([q EXCEPT !.stack = <<>>,
                                      !.results = Append(@, createdTask(frame))], repo)
            ELSE runRequest([q EXCEPT
                     !.stack = [SubSeq(@, 1, n - 1) EXCEPT
                                   ![n - 1].children = Append(@, createdTask(frame))]], repo)

(***************************************************************************)
(* enrichDueDates.  A node of the forest is named by its path; its phase   *)
(* is "idle" (enrichDueDates not called yet), "resolving" (its model call  *)
(* is outstanding), "joining" (its subtasks are being enriched), "done" or *)
(* "failed".                                                               *)
(***************************************************************************)

RECURSIVE nodeAt(_, _)
nodeAt(tasks, path) ==
    IF Len(path) = 1 THEN tasks[path[1]]
    ELSE nodeAt(tasks[path[1]].subtasks, Tail(path))

RECURSIVE pathsOf(_, _)
pathsOf(tasks, prefix) ==
    UNION {{Append(prefix, i)} \cup pathsOf(tasks[i].subtasks, Append(prefix, i)) :
               i \in DOMAIN tasks}

childrenOf(tasks, path) ==
    {Append(path, i) : i \in DOMAIN nodeAt(tasks, path).subtasks}

\* whether path m comes before path n in the order of the input: the order of
\* tasks.map and task.subtasks.map, a task before its subtasks
RECURSIVE precedes(_, _)
precedes(m, n) ==
    IF m = <<>> THEN n # <<>>
    ELSE IF n = <<>> THEN FALSE
    ELSE IF m[1] # n[1] THEN m[1] < n[1]
    ELSE precedes(Tail(m), Tail(n))

\* the dueDate of the node at path in a forest of ParsedTaskInput
RECURSIVE givenDueDate(_, _)
givenDueDate(tasks, path) ==
    IF Len(path) = 1 THEN tasks[path[1]].dueDate
    ELSE givenDueDate(tasks[path[1]].subtasks.v, Tail(path))

\* a faulty variant of enrichText: the title alone
titleOnly(task) == task.title

\* [task.title, task.description].filter(Boolean).join(" ")
enrichText(task) ==
    LET title == IF task.title # <<>> THEN <<task.title>> ELSE <<>>
        parts == IF task.description # Undefined /\ task.description # <<>>
                 THEN Append(title, task.description) ELSE title
    IN IF parts = <<>> THEN <<>>
       ELSE IF Len(parts) = 1 THEN parts[1]
       ELSE parts[1] \o <<" ">> \o parts[2]

\* /today|tomorrow|next week|next month|this week|by |due /i.test(text)
hasDateHint(text) ==
    \E hint \in {<<"t","o","d","a","y">>, <<"t","o","m","o","r","r","o","w">>,
                 <<"n","e","x","t"," ","w","e","e","k">>,
                 <<"n","e","x","t"," ","m","o","n","t","h">>,
                 <<"t","h","i","s"," ","w","e","e","k">>,
                 <<"b","y"," ">>, <<"d","u","e"," ">>} :
        includes(toLowerCase(text), hint)

\* enrichDueDates up to its first await
startEnrich(task) ==
    IF task.dueDate # Undefined THEN [phase |-> "joining", resolved |-> task.dueDate]
    ELSE IF hasDateHint(enrichText(task)) THEN [phase |-> "resolving", resolved |-> Undefined]
    ELSE [phase |-> "joining", resolved |-> Undefined]

\* a faulty variant of resolveOutcome: a failed call is taken as "no due date"
recovered(response) ==
    [phase |-> "joining",
     resolved |-> IF response.ok /\ response.dueDate # Null THEN response.dueDate
                  ELSE Undefined]

\* what resolveDueDateWithModel's call leaves in the node: dueDate ?? undefined,
\* or the rejection of enrichDueDates
resolveOutcome(response) ==
    IF response.ok
    THEN [phase |-> "joining",
          resolved |-> IF response.dueDate = Null THEN Undefined ELSE response.dueDate]
    ELSE [phase |-> "failed", resolved |-> Undefined]

\* a faulty variant of settle: every node is started at once, whatever its parent
RECURSIVE settleAtOnce(_, _)
settleAtOnce(tasks, nodes) ==
    LET starts == {p \in DOMAIN nodes : nodes[p].phase = "idle"}
        joins == {p \in DOMAIN nodes :
                      /\ nodes[p].phase = "joining"
                      /\ \A c \in childrenOf(tasks, p) : nodes[c].phase = "done"}
    IN IF starts # {}
       THEN settleAtOnce(tasks, [p \in DOMAIN nodes |->
                IF p \in starts THEN startEnrich(nodeAt(tasks, p)) ELSE nodes[p]])
       ELSE IF joins # {}
       THEN settleAtOnce(tasks, [p \in DOMAIN nodes |->
                IF p \in joins THEN [nodes[p] EXCEPT !.phase = "done"] ELSE nodes[p]])
       ELSE nodes

\* everything that runs without waiting for a model call: subtasks of a joining
\* node are started, a joining node whose subtasks are all done is done
RECURSIVE settle(_, _)
settle(tasks, nodes) ==
    LET starts == {p \in DOMAIN nodes :
                       /\ nodes[p].phase = "idle"
                       /\ Len(p) = 1 \/ nodes[SubSeq(p, 1, Len(p) - 1)].phase = "joining"}
        joins == {p \in DOMAIN nodes :
                      /\ nodes[p].phase = "joining"
                      /\ \A c \in childrenOf(tasks, p) : nodes[c].phase = "done"}
    IN IF starts # {}
       THEN settle(tasks, [p \in DOMAIN nodes |->
                IF p \in starts THEN startEnrich(nodeAt(tasks, p)) ELSE nodes[p]])
       ELSE IF joins # {}
       THEN settle(tasks, [p \in DOMAIN nodes |->
                IF p \in joins THEN [nodes[p] EXCEPT !.phase = "done"] ELSE nodes[p]])
       ELSE nodes

\* a faulty variant of enriched: a subtask is given the date resolved for its parent
RECURSIVE inherited(_, _, _, _)
inherited(tasks, prefix, nodes, now) ==
    [i \in DOMAIN tasks |->
        [tasks[i] EXCEPT
            !.dueDate = normalizeDueDate(
                nodes[IF prefix = <<>> THEN <<i>> ELSE prefix].resolved, now),
            !.subtasks = inherited(tasks[i].subtasks, Append(prefix, i), nodes, now)]]

\* the value of enrichDueDates for the trees tasks, whose nodes are named prefix.i
RECURSIVE enriched(_, _, _, _)
enriched(tasks, prefix, nodes, now) ==
    [i \in DOMAIN tasks |->
        [tasks[i] EXCEPT
            !.dueDate = normalizeDueDate(nodes[Append(prefix, i)].resolved, now),
            !.subtasks = enriched(tasks[i].subtasks, Append(prefix, i), nodes, now)]]

\* tasks.length ? tasks : [{ title: text.slice(0, 200) || "Untitled task", subtasks: [] }]
TitleSliceLength == 200

\* a faulty variant of safeTasks: the synthetic task replaces every answer
alwaysSynthetic(tasks, text) ==
    <<[title |-> slice(text, 200), description |-> Undefined, dueDate |-> Undefined,
       priority |-> Undefined, status |-> Undefined, effort |-> Undefined,
       taskType |-> Undefined, subtasks |-> JArr(<<>>)]>>

safeTasks(tasks, text) ==
    IF Len(tasks) # 0 THEN tasks
    ELSE <<[title |-> IF slice(text, TitleSliceLength) # <<>>
                      THEN slice(text, TitleSliceLength)
                      ELSE <<"U","n","t","i","t","l","e","d"," ","t","a","s","k">>,
            description |-> Undefined, dueDate |-> Undefined, priority |-> Undefined,
            status |-> Undefined, effort |-> Undefined, taskType |-> Undefined,
            subtasks |-> JArr(<<>>)]>>

\* parsedTasksSchema applied to the model's answer: z.array(...).min(1), and
\* every task validates
parsedTasksSchemaOk(rawTasks) ==
    /\ Len(rawTasks) >= 1
    /\ \A i \in DOMAIN rawTasks : parsedTaskInputSchemaOk(rawTasks[i])

parsedTasksSchema(rawTasks) ==
    [i \in DOMAIN rawTasks |-> parsedTaskInputSchema(rawTasks[i])]

(***************************************************************************)
(* State.                                                                  *)
(***************************************************************************)

NumReqs == 2

Reqs == 1..NumReqs

VARIABLES
    now,                      \* the clock's day, read by new Date()
    pipe,                     \* per request: runTaskParsingPipeline
    req,                      \* per request: createFromParsedTasks
    net,                      \* per request: its outstanding document-store call
    cachedProperties,         \* NotionTaskRepo.cachedProperties
    normalizedPropertyNames,  \* NotionTaskRepo.normalizedPropertyNames
    parentRelationProperty,   \* NotionTaskRepo.parentRelationProperty
    database,                 \* the schema held by the document store
    pages,                    \* the pages created in the document store, in order
    everOptions,              \* history: the <<property, option>> pairs the store ever held
    completedUpdates,         \* history: the <<property, option>> pairs whose update was cached
    fetches,                  \* history: the metadata fetches ensureMetadata issued
    llmFailed,                \* history: per request, whether a model call of it failed
    http,                     \* the HTTP request the server is answering, and its reply
    call                      \* a function applied on its own: its input and its value

vars == <<now, pipe, req, net, cachedProperties, normalizedPropertyNames,
          parentRelationProperty, database, pages, everOptions, completedUpdates,
          fetches, llmFailed, http, call>>

repoVars == <<cachedProperties, normalizedPropertyNames, parentRelationProperty>>

storeVars == <<database, pages, everOptions>>

\* the repo's three fields, as the operators above read them
Repo ==
    [cachedProperties |-> cachedProperties,
     normalizedPropertyNames |-> normalizedPropertyNames,
     parentRelationProperty |-> parentRelationProperty]

optionPairs(properties) ==
    UNION {{<<properties[i].name, o>> : o \in Range(properties[i].options)} :
               i \in DOMAIN properties}

\* given is history: the dueDate each node carried in the validated answer;
\* overtook is history: the nodes whose resolution call was answered while the
\* call of a node before them in the input order was still outstanding
idlePipe == [pc |-> "idle", text |-> <<>>, tasks |-> <<>>, nodes |-> <<>>,
             calls |-> 0, result |-> <<>>, given |-> <<>>, overtook |-> {}]

idleReq == [pc |-> "idle", tasks |-> <<>>, source |-> Undefined, results |-> <<>>,
            stack |-> <<>>, error |-> "none"]

(***************************************************************************)
(* The inputs: the days the clock can show, the texts submitted, the       *)
(* answers of the model and the schemas of the database.                   *)
(***************************************************************************)

Days == {[y |-> 2026, m |-> 11, d |-> 6, time |-> <<"T","1","0",":","3","0",":","0","0",".","0","0","0","Z">>],
         [y |-> 2027, m |-> 1, d |-> 31, time |-> <<"T","1","0",":","3","0",":","0","0",".","0","0","0","Z">>]}

Texts == {<<"x">>, <<"c","a","l","l"," ","b","o","b"," ","b","y"," ","f","r","i","d","a","y">>}

rawTask(title, dueDate, priority, status, effort, taskType, subtasks) ==
    [t |-> "object", title |-> title, description |-> JUndef, dueDate |-> dueDate,
     priority |-> priority, status |-> status, effort |-> effort,
     taskType |-> taskType, subtasks |-> subtasks]

plainTask(title, subtasks) ==
    rawTask(title, JUndef, JUndef, JUndef, JUndef, JUndef, subtasks)

\* one task, every combination of the optional fields
RawFieldTasks ==
    {rawTask(JStr(<<"a">>), dueDate, priority, status, effort, taskType, JUndef) :
        dueDate \in {JUndef, JStr(<<"T","o","m","o","r","r","o","w">>), JStr(<<"s","o","o","n">>), JStr(<<"2","0","2","6","-","1","2","-","0","1">>)},
        priority \in {JUndef, JStr(<<" ","U","R","G","E","N","T"," ">>), JStr(<<"m","e","d">>), JStr(<<"a","s","a","p">>)},
        status \in {JNull, JStr(<<"D","o","i","n","g">>), JStr(<<>>)},
        effort \in {JUndef, JStr(<<"B","I","G">>), JStr(<<"m">>)},
        taskType \in {JUndef, JNull, JStr(<<>>), JStr(<<"B","u","g">>)}}

\* the subtasks values: absent, not an array, strings, null, a number, objects
\* with and without a usable title, nested subtasks
RawSubtasks ==
    {JUndef, JStr(<<"b">>), JArr(<<>>),
     JArr(<<JStr(<<"b">>), JStr(<<>>)>>),
     JArr(<<JNull, JNum(<<"0">>)>>),
     JArr(<<plainTask(JStr(<<" ">>), JArr(<<JStr(<<"e">>)>>)), plainTask(JUndef, JUndef)>>),
     JArr(<<plainTask(JStr(<<"c">>), JArr(<<JStr(<<"d"," ","d","u","e"," ","m","o","n","d","a","y">>)>>)),
            rawTask(JStr(<<"f">>), JStr(<<"n","e","x","t"," ","w","e","e","k">>), JStr(<<"H","i","g","h">>), JStr(<<"d","o","n","e">>), JStr(<<"L">>),
                    JStr(<<"B","u","g">>), JStr(<<"g">>))>>)}

RawTreeTasks ==
    {plainTask(JStr(title), subtasks) :
        title \in {<<>>, <<" ">>, <<"a">>, <<"p","a","y"," ","r","e","n","t"," ","b","y"," ","f","r","i","d","a","y">>},
        subtasks \in RawSubtasks}

\* the answers the model gives to the task-extraction call; generateObject
\* validates them against parsedTasksSchema and rejects those that fail
RawAnswers ==
    {<<>>} \cup {<<task>> : task \in RawFieldTasks \cup RawTreeTasks}
    \cup {<<plainTask(JStr(<<"a">>), JArr(<<JStr(<<"b">>)>>)), plainTask(JStr(<<"h"," ","t","o","d","a","y">>), JUndef)>>,
          <<plainTask(JStr(<<"a">>), JUndef), plainTask(JNull, JUndef)>>,
          <<JStr(<<"a">>)>>,
          <<plainTask(JStr(<<"a">>), JArr(<<JStr(<<"b"," ","b","y"," ","m","o","n">>), JStr(<<"c"," ","d","u","e"," ","f","r","i">>)>>)),
            plainTask(JStr(<<"d"," ","t","o","d","a","y">>), JArr(<<JStr(<<"e"," ","b","y"," ","9">>)>>))>>,
          <<[plainTask(JStr(<<"r","e","n","t"," ","d","u","e">>), JArr(<<JStr(<<"r","e","n","t"," ","d","u","e">>)>>))
                EXCEPT !.description = JStr(<<"x">>)]>>,
          <<rawTask(JStr(<<"p","a","y"," ","b","y"," ","f","r","i","d","a","y">>), JStr(<<"s","o","o","n">>),
                    JUndef, JUndef, JUndef, JUndef,
                    JArr(<<rawTask(JStr(<<"d","u","e"," ","m","o","n","d","a","y">>), JStr(<<"2","0","2","6","-","1","2","-","0","1">>),
                                   JUndef, JUndef, JUndef, JUndef, JUndef)>>))>>}

\* the answers of a due-date resolution call: an ISO datetime or null
ResolvedDates == {Null, <<"2","0","2","6","-","1","1","-","1","3","T","0","0",":","0","0",":","0","0",".","0","0","0","Z">>}

parsedTask(title, status, priority, taskType, effort, subtasks) ==
    [title |-> title, description |-> Undefined, dueDate |-> Undefined,
     priority |-> priority, status |-> status, effort |-> effort,
     taskType |-> taskType, subtasks |-> subtasks]

\* the forests handed to createFromParsedTasks directly
ParsedForests ==
    {<<parsedTask(<<"A">>, statusValues[1], priorityValues[4], <<"T","a","s","k">>, effortValues[1],
          <<parsedTask(<<"B">>, statusValues[3], priorityValues[4], <<"T","a","s","k">>, effortValues[1],
               <<parsedTask(<<"G">>, statusValues[1], priorityValues[1], <<>>, effortValues[1], <<>>)>>),
            parsedTask(<<"C">>, statusValues[1], priorityValues[1], <<"B","u","g">>, effortValues[3], <<>>)>>)>>,
     <<parsedTask(<<"D">>, statusValues[4], priorityValues[3], <<"T","a","s","k">>, effortValues[2], <<>>)>>}

property(name, type, options) == [name |-> name, type |-> type, options |-> options]

Schemas ==
    {<<property(<<"T","a","s","k"," ","n","a","m","e">>, "title", <<>>),
       property(<<"S","t","a","t","u","s">>, "status", <<statusValues[1], statusValues[2], statusValues[4]>>),
       property(<<"P","r","i","o","r","i","t","y">>, "select", <<priorityValues[1], priorityValues[2]>>),
       property(<<"T","a","s","k"," ","T","y","p","e">>, "multi_select", <<<<"T","a","s","k">>>>),
       property(<<"E","f","f","o","r","t"," ","l","e","v","e","l">>, "select", <<effortValues[1], effortValues[2]>>),
       property(<<"D","u","e"," ","d","a","t","e">>, "date", <<>>),
       property(<<"D","e","s","c","r","i","p","t","i","o","n">>, "rich_text", <<>>),
       property(<<"P","a","r","e","n","t"," ","t","a","s","k">>, "relation", <<>>)>>,
     <<property(<<"N","a","m","e">>, "title", <<>>),
       property(<<"S","t","a","t","e">>, "status", <<statusValues[1]>>),
       property(<<"P","r","i","o","r","i","t","y","-","L","e","v","e","l">>, "multi_select", <<priorityValues[1]>>),
       property(<<"K","i","n","d">>, "select", <<<<"T","a","s","k">>>>),
       property(<<"E","f","f","o","r","t">>, "rich_text", <<>>),
       property(<<"S","o","u","r","c","e">>, "select", <<>>),
       property(<<"P","a","r","e","n","t">>, "relation", <<>>)>>,
     <<property(<<"T","a","s","k"," ","n","a","m","e">>, "title", <<>>),
       property(<<"S","t","a","t","u","s">>, "select", <<statusValues[1], statusValues[4]>>),
       property(<<"T","y","p","e">>, "multi_select", <<>>),
       property(<<"p","r","i","o","r","i","t","y">>, "select", <<priorityValues[1], priorityValues[3], priorityValues[4]>>)>>}

(***************************************************************************)
(* Actions.  Each action is one turn of the event loop: a request runs     *)
(* from the arrival of a response to its next external call.               *)
(***************************************************************************)

\* createFromParsedTasks up to its first external call
createFromParsedTasks(tasks, source, repo) ==
    LET q == [idleReq EXCEPT !.pc = "running", !.tasks = tasks, !.source = source]
    IN IF repo.cachedProperties.t = "null"
       THEN [q |-> q, call |-> [kind |-> "retrieve", state |-> "sent"]]
       ELSE runRequest(q, repo)

\* request r is left as out.q with out.call outstanding
Issue(r, out) ==
    /\ req' = [req EXCEPT ![r] = out.q]
    /\ net' = [net EXCEPT ![r] = out.call]
    /\ fetches' = IF out.call.kind = "retrieve" THEN fetches + 1 ELSE fetches

\* the pipeline after an answer left its nodes as nodes: it rejects if a node
\* failed, returns if every tree is done, and waits otherwise
pipelineAfter(p, nodes, current) ==
    LET issued == Cardinality({n \in DOMAIN nodes :
                      nodes[n].phase = "resolving" /\
                      (n \notin DOMAIN p.nodes \/ p.nodes[n].phase = "idle")})
        q == [p EXCEPT !.nodes = nodes, !.calls = @ + issued]
    IN IF p.pc # "enriching" THEN q
       ELSE IF \E n \in DOMAIN nodes : nodes[n].phase = "failed"
       THEN [q EXCEPT !.pc = "failed"]
       ELSE IF \A n \in DOMAIN nodes : Len(n) = 1 => nodes[n].phase = "done"
       THEN [q EXCEPT !.pc = "returned", !.result = enriched(p.tasks, <<>>, nodes, current)]
       ELSE q

\* createTaskFromText: once the pipeline has returned, its tasks are created
Continue(r, p) ==
    /\ pipe' = [pipe EXCEPT ![r] = p]
    /\ IF p.pc = "returned" /\ pipe[r].pc # "returned"
       THEN Issue(r, createFromParsedTasks(p.result, <<"h","t","t","p">>, Repo))
       ELSE UNCHANGED <<req, net, fetches>>

CreateTaskFromText(r, text) ==
    /\ pipe[r].pc = "idle" /\ req[r].pc = "idle"
    /\ pipe' = [pipe EXCEPT ![r] = [idlePipe EXCEPT !.pc = "extracting", !.text = text,
                                                    !.calls = 1]]
    /\ UNCHANGED <<now, call, req, net, repoVars, storeVars, completedUpdates, fetches, llmFailed>>

ExtractionReturns(r, rawTasks) ==
    /\ pipe[r].pc = "extracting"
    /\ parsedTasksSchemaOk(rawTasks)
    /\ LET safe == safeTasks(parsedTasksSchema(rawTasks), pipe[r].text)
           withDefaults == [i \in DOMAIN safe |-> applyDefaults(safe[i], now)]
           idle == [n \in pathsOf(withDefaults, <<>>) |->
                        [phase |-> "idle", resolved |-> Undefined]]
       IN Continue(r, pipelineAfter(
              [pipe[r] EXCEPT !.pc = "enriching", !.tasks = withDefaults, !.nodes = idle,
                              !.given = [n \in DOMAIN idle |-> givenDueDate(safe, n)]],
              settle(withDefaults, idle), now))
    /\ UNCHANGED <<now, call, http, repoVars, storeVars, completedUpdates, llmFailed>>

\* the call rejects: the provider failed, or its answer did not validate
ExtractionFails(r) ==
    /\ pipe[r].pc = "extracting"
    /\ pipe' = [pipe EXCEPT ![r].pc = "failed"]
    /\ llmFailed' = [llmFailed EXCEPT ![r] = TRUE]
    /\ UNCHANGED <<now, call, http, req, net, repoVars, storeVars, completedUpdates, fetches>>

ResolutionAnswers(r, n, response) ==
    /\ pipe[r].pc \in {"enriching", "failed"}
    /\ n \in DOMAIN pipe[r].nodes
    /\ pipe[r].nodes[n].phase = "resolving"
    /\ Continue(r, pipelineAfter(
           [pipe[r] EXCEPT !.overtook =
               IF \E m \in DOMAIN pipe[r].nodes :
                      precedes(m, n) /\ pipe[r].nodes[m].phase = "resolving"
               THEN @ \cup {n} ELSE @],
           settle(pipe[r].tasks, [pipe[r].nodes EXCEPT ![n] = resolveOutcome(response)]),
           now))
    /\ llmFailed' = [llmFailed EXCEPT ![r] = @ \/ ~response.ok]
    /\ UNCHANGED <<now, call, http, repoVars, storeVars, completedUpdates>>

ResolutionReturns(r) ==
    \E n \in DOMAIN pipe[r].nodes, dueDate \in ResolvedDates :
        ResolutionAnswers(r, n, [ok |-> TRUE, dueDate |-> dueDate])

ResolutionFails(r) ==
    \E n \in DOMAIN pipe[r].nodes :
        ResolutionAnswers(r, n, [ok |-> FALSE, dueDate |-> Null])

\* createFromParsedTasks called on its own (index.ts exports it as createTasks)
CreateFromParsedTasks(r, tasks) ==
    /\ pipe[r].pc = "idle" /\ req[r].pc = "idle"
    /\ Issue(r, createFromParsedTasks(tasks, Undefined, Repo))
    /\ UNCHANGED <<now, call, http, pipe, repoVars, storeVars, completedUpdates, llmFailed>>

(***************************************************************************)
(* The document store: it answers an outstanding call from its own state,  *)
(* or fails it; the answer reaches the request in a later turn.            *)
(***************************************************************************)

pageIdOf(n) == <<"p">> \o digits2(n)

DatabasesRetrieve(r) ==
    /\ net[r].kind = "retrieve" /\ net[r].state = "sent"
    /\ net' = [net EXCEPT ![r] = [kind |-> "retrieve", state |-> "answered",
                                  properties |-> database]]
    /\ UNCHANGED <<now, call, http, pipe, req, repoVars, storeVars, completedUpdates, fetches, llmFailed>>

\* databases.update: the property's options become the list sent
DatabasesUpdate(r) ==
    /\ net[r].kind = "update" /\ net[r].state = "sent"
    /\ LET updated == [i \in DOMAIN database |->
                          IF database[i].name = net[r].property
                          THEN [database[i] EXCEPT !.options = net[r].options]
                          ELSE database[i]]
       IN /\ database' = updated
          /\ everOptions' = everOptions \cup optionPairs(updated)
          /\ net' = [net EXCEPT ![r] = [@ EXCEPT !.state = "answered"] @@
                                       [properties |-> updated]]
    /\ UNCHANGED <<now, call, http, pipe, req, repoVars, pages, completedUpdates, fetches, llmFailed>>

PagesCreate(r) ==
    /\ net[r].kind = "create" /\ net[r].state = "sent"
    /\ LET id == pageIdOf(Len(pages) + 1)
       IN /\ pages' = Append(pages, [id |-> id, req |-> r, path |-> net[r].path,
                                     parentPageId |-> net[r].parentPageId,
                                     properties |-> net[r].properties])
          /\ net' = [net EXCEPT ![r] = [@ EXCEPT !.state = "answered"] @@
                                       [id |-> id, url |-> <<"u">> \o id]]
    /\ UNCHANGED <<now, call, http, pipe, req, repoVars, database, everOptions, completedUpdates,
                   fetches, llmFailed>>

\* a faulty variant of CallFails: the pages of the failed request are deleted
CallFailsAndRollsBack(r) ==
    /\ net[r].kind # "none" /\ net[r].state = "sent"
    /\ req' = [req EXCEPT ![r] = [@ EXCEPT !.pc = "failed", !.error = net[r].kind]]
    /\ net' = [net EXCEPT ![r] = NoCall]
    /\ pages' = SelectSeq(pages, LAMBDA page : page.req # r)
    /\ UNCHANGED <<now, call, http, pipe, repoVars, database, everOptions, completedUpdates, fetches,
                   llmFailed>>

\* a faulty variant of CallFails: a failed call leaves an empty schema cached
CallFailsAndCaches(r) ==
    /\ net[r].kind # "none" /\ net[r].state = "sent"
    /\ req' = [req EXCEPT ![r] = [@ EXCEPT !.pc = "failed", !.error = net[r].kind]]
    /\ net' = [net EXCEPT ![r] = NoCall]
    /\ cachedProperties' = [t |-> "object", v |-> <<>>]
    /\ UNCHANGED <<now, call, http, pipe, normalizedPropertyNames, parentRelationProperty,
                   storeVars, completedUpdates, fetches, llmFailed>>

\* a call the store fails rejects createFromParsedTasks: nothing catches it
CallFails(r) ==
    /\ net[r].kind # "none" /\ net[r].state = "sent"
    /\ req' = [req EXCEPT ![r] = [@ EXCEPT !.pc = "failed", !.error = net[r].kind]]
    /\ net' = [net EXCEPT ![r] = NoCall]
    /\ UNCHANGED <<now, call, http, pipe, repoVars, storeVars, completedUpdates, fetches, llmFailed>>

Cache(properties) ==
    /\ cachedProperties' = cacheOf(properties).cachedProperties
    /\ normalizedPropertyNames' = cacheOf(properties).normalizedPropertyNames
    /\ parentRelationProperty' = cacheOf(properties).parentRelationProperty

\* ensureMetadata after its await: the response is cached, whatever the cache holds
RetrieveReturns(r) ==
    /\ net[r].kind = "retrieve" /\ net[r].state = "answered"
    /\ Cache(net[r].properties)
    /\ Issue(r, runRequest(req[r], cacheOf(net[r].properties)))
    /\ UNCHANGED <<now, call, http, pipe, storeVars, completedUpdates, llmFailed>>

\* ensureSelectOption after its await: the cache is refreshed from the response,
\* createTask writes the option
UpdateReturns(r) ==
    /\ net[r].kind = "update" /\ net[r].state = "answered"
    /\ cachedProperties' = cacheOf(net[r].properties).cachedProperties
    /\ normalizedPropertyNames' = cacheOf(net[r].properties).normalizedPropertyNames
    /\ UNCHANGED parentRelationProperty
    /\ completedUpdates' = completedUpdates \cup {<<net[r].property, net[r].value.name>>}
    /\ LET n == Len(req[r].stack)
           repo == [cacheOf(net[r].properties) EXCEPT
                       !.parentRelationProperty = parentRelationProperty]
       IN Issue(r, runRequest(
              [req[r] EXCEPT !.stack[n] = writeOption(req[r].stack[n], net[r].value)], repo))
    /\ UNCHANGED <<now, call, http, pipe, storeVars, llmFailed>>

CreateReturns(r) ==
    /\ net[r].kind = "create" /\ net[r].state = "answered"
    /\ LET n == Len(req[r].stack)
       IN Issue(r, runRequest(
              [req[r] EXCEPT !.stack[n] = [@ EXCEPT !.pageId = net[r].id,
                                                     !.url = net[r].url, !.stage = 6]], Repo))
    /\ UNCHANGED <<now, call, http, pipe, repoVars, storeVars, completedUpdates, llmFailed>>

(***************************************************************************)
(* The HTTP server.  Fastify runs the onRequest hooks of a request, then   *)
(* validates its body against the route's schema and calls the route's     *)
(* handler, unless a hook has sent the reply or has thrown.  The value an  *)
(* async hook resolves to is not a reply: only reply.send answers.         *)
(***************************************************************************)

API_KEY == <<"k">>

idleHttp == [pc |-> "idle", url |-> <<>>, apiKey |-> Undefined, body |-> JUndef,
             statusCode |-> 200, sent |-> FALSE, payload |-> "none"]

\* the requests received: a route, an x-api-key header or none, a body text or none
HttpRequests ==
    [url : {<<"/","h","e","a","l","t","h">>, <<"/","t","a","s","k">>},
     apiKey : {API_KEY, <<"w">>, Undefined},
     text : {JUndef, JStr(<<>>), JStr(<<"x">>)}]

\* the onRequest hook: on a key mismatch it sets the status code and returns
\* {error: "unauthorized"} without sending it
onRequest(request, reply) ==
    IF startsWith(request.url, <<"/","h","e","a","l","t","h">>) THEN reply
    ELSE IF request.apiKey # API_KEY
    THEN [reply EXCEPT !.statusCode = 401]
    ELSE reply

\* the body schema of POST /task: text is a string of at least one character
taskBodyOk(body) == body.t = "string" /\ Len(body.v) >= 1

\* a request arrives and its onRequest hook runs
Receive(request) ==
    /\ http.pc = "idle"
    /\ LET reply == onRequest(request, [idleHttp EXCEPT !.url = request.url,
                                                         !.apiKey = request.apiKey,
                                                         !.body = request.text])
       IN http' = [reply EXCEPT !.pc = IF reply.sent THEN "sent" ELSE "routed"]
    /\ UNCHANGED <<now, call, pipe, req, net, repoVars, storeVars, completedUpdates, fetches,
                   llmFailed>>

\* GET /health
HealthRoute ==
    /\ http.pc = "routed" /\ http.url = <<"/","h","e","a","l","t","h">>
    /\ http' = [http EXCEPT !.pc = "sent", !.sent = TRUE, !.payload = "status"]
    /\ UNCHANGED <<now, call, pipe, req, net, repoVars, storeVars, completedUpdates, fetches,
                   llmFailed>>

\* POST /task with a body the schema refuses: the error handler answers 400
ValidationFails ==
    /\ http.pc = "routed" /\ http.url = <<"/","t","a","s","k">>
    /\ ~taskBodyOk(http.body)
    /\ http' = [http EXCEPT !.pc = "sent", !.sent = TRUE, !.statusCode = 400,
                            !.payload = "internal_error"]
    /\ UNCHANGED <<now, call, pipe, req, net, repoVars, storeVars, completedUpdates, fetches,
                   llmFailed>>

\* POST /task: the handler calls createTaskFromText with the body's text
PostTask ==
    /\ http.pc = "routed" /\ http.url = <<"/","t","a","s","k">>
    /\ taskBodyOk(http.body)
    /\ http' = [http EXCEPT !.pc = "handler"]
    /\ CreateTaskFromText(1, http.body.v)

\* the handler returns {tasks}: the reply is sent with the status code it holds
TaskReply ==
    /\ http.pc = "handler" /\ req[1].pc = "done"
    /\ http' = [http EXCEPT !.pc = "sent", !.sent = TRUE, !.payload = "tasks"]
    /\ UNCHANGED <<now, call, pipe, req, net, repoVars, storeVars, completedUpdates, fetches,
                   llmFailed>>

\* the handler rejects: the error handler answers with the error's status or 500
ErrorReply ==
    /\ http.pc = "handler"
    /\ pipe[1].pc = "failed" \/ req[1].pc = "failed"
    /\ http' = [http EXCEPT !.pc = "sent", !.sent = TRUE, !.statusCode = 500,
                            !.payload = "internal_error"]
    /\ UNCHANGED <<now, call, pipe, req, net, repoVars, storeVars, completedUpdates, fetches,
                   llmFailed>>

(***************************************************************************)
(* The pure functions applied on their own, to inputs drawn from bounded   *)
(* sets: applyDefaults, normalizeDueDate and resolvePropertyName.          *)
(***************************************************************************)

NoApplication == [op |-> "none"]

\* a ParsedTask read as a ParsedTaskInput
RECURSIVE asInput(_)
asInput(task) ==
    [task EXCEPT !.subtasks = JArr([i \in DOMAIN task.subtasks |-> asInput(task.subtasks[i])])]

IsoInstants ==
    {<<"2","0","2","6","-","1","2","-","0","1","T","0","0",":","0","0",":","0","0",".","0","0","0","Z">>,
     <<"2","0","2","8","-","0","2","-","2","9","T","2","3",":","5","9",":","5","9",".","9","9","9","Z">>}

\* trees of canonical values: every combination of the enumeration values at
\* a node, and trees of depth three
CanonicalTrees ==
    LET leaves == {[title |-> <<"a">>, description |-> Undefined, dueDate |-> dueDate,
                    priority |-> priority, status |-> status, effort |-> effort,
                    taskType |-> taskType, subtasks |-> <<>>] :
                      dueDate \in {Undefined} \cup IsoInstants,
                      priority \in Range(priorityValues), status \in Range(statusValues),
                      effort \in Range(effortValues),
                      taskType \in {<<"T","a","s","k">>, <<"B","u","g">>}}
        leaf == parsedTask(<<"c">>, statusValues[1], priorityValues[3], <<"B","u","g">>,
                           effortValues[3], <<>>)
        mid == [parsedTask(<<"b">>, statusValues[4], priorityValues[2], <<"T","a","s","k">>,
                           effortValues[2], <<leaf, leaf>>)
                EXCEPT !.dueDate = CHOOSE d \in IsoInstants : d[4] = "6"]
    IN leaves \cup {mid, parsedTask(<<"a">>, statusValues[1], priorityValues[1],
                                    <<"T","a","s","k">>, effortValues[1], <<mid, leaf>>)}

\* the inputs of applyDefaults: canonical trees, and the model's answers
DefaultsInputs ==
    {asInput(task) : task \in CanonicalTrees}
    \cup {parsedTaskInputSchema(raw) : raw \in {task \in RawFieldTasks \cup RawTreeTasks :
                                                   parsedTaskInputSchemaOk(task)}}

\* the due dates given: none, empty, keywords, dates, and strings that are neither
DueDateInputs ==
    {Undefined, <<>>, <<" ">>, <<"s","o","o","n">>, <<"f","r","i","d","a","y">>,
     <<"g","a","r","b","a","g","e","-","n","o","t","-","a","-","d","a","t","e">>,
     <<"2","0","2","6","-","1","3","-","0","1">>, <<"n","/","a">>,
     <<"2","0","2","6","-","1","2","-","0","1","T","2","5",":","0","0",":","0","0",".","0","0","0","Z">>,
     <<"t","o","d","a","y","s">>, <<"n","e","x","t","w","e","e","k">>,
     <<"T","o","d","a","y">>, <<"b","y"," ","t","o","m","o","r","r","o","w">>,
     <<"N","e","x","t"," ","w","e","e","k">>, <<"t","h","i","s"," ","w","e","e","k">>,
     <<"n","e","x","t"," ","m","o","n","t","h">>,
     <<"2","0","2","6","-","1","2","-","0","1">>} \cup IsoInstants

\* the schemas names are resolved in: those of the database, near names
\* declared before the exact one, names that share a normalized key, none
ResolveSchemas ==
    Schemas \cup
    {<<>>,
     <<property(<<"T","a","s","k"," ","t","y","p","e","s">>, "select", <<>>),
       property(<<"T","y","p","e">>, "select", <<>>),
       property(<<"T","a","s","k"," ","T","y","p","e">>, "multi_select", <<>>)>>,
     <<property(<<"N","a","m","e">>, "title", <<>>),
       property(<<"M","y"," ","S","t","a","t","u","s">>, "select", <<>>),
       property(<<"S","t","a","t","u","s"," ","2">>, "status", <<>>),
       property(<<"P","r","i","o">>, "select", <<>>)>>,
     <<property(<<"T","a","s","k","-","T","y","p","e","-","X">>, "select", <<>>),
       property(<<"E","f","f","o","r","t","_","L","e","v","e","l">>, "select", <<>>),
       property(<<"T","a","s","k"," ","T","y","p","e"," ","X">>, "multi_select", <<>>),
       property(<<"e","f","f","o","r","t"," ","l","e","v","e","l">>, "rich_text", <<>>)>>}

DesiredNames == Range(logicalNames) \cup {<<"S","o","u","r","c","e">>}

\* a text longer than the title slice
LongText == [i \in 1..(TitleSliceLength + 1) |-> IF i > TitleSliceLength THEN "z" ELSE "a"]

\* the lists handed to the guard: the empty one, and validated answers
SafeTasksInputs ==
    [tasks : {<<>>} \cup {parsedTasksSchema(rawTasks) :
                            rawTasks \in {answer \in RawAnswers \ {<<task>> : task \in RawFieldTasks} :
                                             parsedTasksSchemaOk(answer)}},
     text : Texts \cup {<<>>, LongText}]

\* the guard of runTaskParsingPipeline on the list the extraction call returned
SafeTasks(input) ==
    /\ call.op = "none"
    /\ call' = [op |-> "safeTasks", input |-> input,
                output |-> safeTasks(input.tasks, input.text)]
    /\ UNCHANGED <<now, http, pipe, req, net, repoVars, storeVars, completedUpdates, fetches,
                   llmFailed>>

\* the days parseNaturalDate is called on: a week from Sunday to Saturday that
\* runs over the end of a month, and days before the end of a year and of a
\* February with 29 days
WeekDays ==
    {[y |-> 2027, m |-> 2, d |-> 28, time |-> <<"T","2","3",":","5","9",":","5","9",".","9","9","9","Z">>],
     [y |-> 2027, m |-> 3, d |-> 1, time |-> <<"T","0","0",":","0","0",":","0","0",".","0","0","0","Z">>],
     [y |-> 2027, m |-> 3, d |-> 2, time |-> <<"T","1","0",":","3","0",":","0","0",".","0","0","0","Z">>],
     [y |-> 2027, m |-> 3, d |-> 3, time |-> <<"T","1","0",":","3","0",":","0","0",".","0","0","0","Z">>],
     [y |-> 2027, m |-> 3, d |-> 4, time |-> <<"T","1","0",":","3","0",":","0","0",".","0","0","0","Z">>],
     [y |-> 2027, m |-> 3, d |-> 5, time |-> <<"T","1","0",":","3","0",":","0","0",".","0","0","0","Z">>],
     [y |-> 2027, m |-> 3, d |-> 6, time |-> <<"T","1","0",":","3","0",":","0","0",".","0","0","0","Z">>],
     [y |-> 2027, m |-> 12, d |-> 27, time |-> <<"T","1","0",":","3","0",":","0","0",".","0","0","0","Z">>],
     [y |-> 2028, m |-> 2, d |-> 23, time |-> <<"T","1","0",":","3","0",":","0","0",".","0","0","0","Z">>],
     [y |-> 2028, m |-> 12, d |-> 31, time |-> <<"T","0","0",":","0","0",":","0","0",".","0","0","0","Z">>]}

\* the strings given to parseNaturalDate: the keywords in varied case and
\* position, two keywords in one string, and near misses
NaturalDateInputs ==
    {<<"t","h","i","s"," ","w","e","e","k">>,
     <<"T","h","i","s"," ","W","e","e","k">>,
     <<" ","s","o","m","e","t","i","m","e"," ","t","h","i","s"," ","w","e","e","k","\n">>,
     <<"e","n","d"," ","o","f"," ","t","h","i","s"," ","w","e","e","k">>,
     <<"n","e","x","t"," ","w","e","e","k">>,
     <<"b","y"," ","N","e","x","t"," ","W","e","e","k">>,
     <<"t","o","d","a","y">>,
     <<" ","T","O","D","A","Y"," ">>,
     <<"b","y"," ","t","o","d","a","y">>,
     <<"n","e","x","t"," ","w","e","e","k",","," ","n","o","t"," ","t","h","i","s"," ","w","e","e","k">>,
     <<"b","y"," ","t","o","d","a","y"," ","t","h","i","s"," ","w","e","e","k">>,
     <<"t","h","i","s"," ","w","e","e","k"," ","o","r"," ","n","e","x","t"," ","m","o","n","t","h">>,
     <<"t","h","i","s","w","e","e","k">>,
     <<"t","h","i","s"," "," ","w","e","e","k">>,
     <<"t","o","d","a","y","s">>,
     <<"w","e","e","k">>}

\* parseNaturalDate called when the clock has reached day
ParseNaturalDate(value, day) ==
    /\ call.op = "none"
    /\ daysBefore(day.y, day.m) + day.d >= daysBefore(now.y, now.m) + now.d
    /\ now' = day
    /\ call' = [op |-> "parseNaturalDate", input |-> value,
                output |-> parseNaturalDate(value, day)]
    /\ UNCHANGED <<http, pipe, req, net, repoVars, storeVars, completedUpdates, fetches,
                   llmFailed>>

\* the schemas ensureSelectOption runs on: those above, and one whose names
\* match no logical name and that has two status and two multi_select properties
EnsureSchemas ==
    ResolveSchemas \cup
    {<<property(<<"N","a","m","e">>, "title", <<>>),
       property(<<"S","t","a","t","e">>, "status", <<statusValues[1]>>),
       property(<<"P","h","a","s","e">>, "status", <<>>),
       property(<<"K","i","n","d">>, "multi_select", <<<<"T","a","s","k">>>>),
       property(<<"T","a","g","s">>, "multi_select", <<>>)>>}

\* the option values: absent, empty, and values of the four fields
OptionInputs ==
    {Undefined, <<>>, statusValues[1], statusValues[3], priorityValues[1], priorityValues[4],
     <<"T","a","s","k">>, <<"B","u","g">>, effortValues[1], effortValues[3]}

\* the repo whose cachedProperties is cached: empty before ensureMetadata
repoOf(cached) ==
    IF cached.t = "object" THEN cacheOf(cached.v)
    ELSE [cachedProperties |-> JNull, normalizedPropertyNames |-> <<>>,
          parentRelationProperty |-> Null]

\* a task whose k-th option field is value
taskWith(k, value) ==
    LET task == parsedTask(<<"a">>, statusValues[1], priorityValues[1], <<"T","a","s","k">>,
                           effortValues[1], <<>>)
    IN CASE k = 1 -> [task EXCEPT !.status = value]
         [] k = 2 -> [task EXCEPT !.priority = value]
         [] k = 3 -> [task EXCEPT !.taskType = value]
         [] k = 4 -> [task EXCEPT !.effort = value]

\* ensureSelectOption for the k-th logical name, up to its return or its first
\* external call
EnsureSelectOption(cached, k, optionName) ==
    /\ call.op = "none"
    /\ call' = [op |-> "ensureSelectOption",
                input |-> [cachedProperties |-> cached, k |-> k, optionName |-> optionName],
                output |-> ensureSelectOption(repoOf(cached), logicalNames[k], optionName)]
    /\ UNCHANGED <<now, http, pipe, req, net, repoVars, storeVars, completedUpdates, fetches,
                   llmFailed>>

\* createTask writes what ensureSelectOption returned (after its update call,
\* if it issued one) into the payload that holds the title
WriteOption ==
    /\ call.op = "ensureSelectOption"
    /\ call.output.kind \in {"return", "update"}
    /\ LET frame == beginTask(repoOf(call.input.cachedProperties),
                              taskWith(call.input.k, call.input.optionName), <<1>>, Null)
       IN call' = [op |-> "writeOption", input |-> call.input, ensured |-> call.output,
                   output |-> writeOption([frame EXCEPT !.stage = call.input.k],
                                          call.output.value).properties]
    /\ UNCHANGED <<now, http, pipe, req, net, repoVars, storeVars, completedUpdates, fetches,
                   llmFailed>>

ApplyDefaults(task) ==
    /\ call.op = "none"
    /\ call' = [op |-> "applyDefaults", input |-> task, output |-> applyDefaults(task, now)]
    /\ UNCHANGED <<now, http, pipe, req, net, repoVars, storeVars, completedUpdates, fetches,
                   llmFailed>>

NormalizeDueDate(value) ==
    /\ call.op = "none"
    /\ call' = [op |-> "normalizeDueDate", input |-> value,
                output |-> normalizeDueDate(value, now)]
    /\ UNCHANGED <<now, http, pipe, req, net, repoVars, storeVars, completedUpdates, fetches,
                   llmFailed>>

\* resolvePropertyName in a repo that has cached the schema
ResolvePropertyName(properties, desiredName) ==
    /\ call.op = "none"
    /\ call' = [op |-> "resolvePropertyName",
                input |-> [properties |-> properties, desiredName |-> desiredName],
                output |-> resolvePropertyName(cacheOf(properties), desiredName)]
    /\ UNCHANGED <<now, http, pipe, req, net, repoVars, storeVars, completedUpdates, fetches,
                   llmFailed>>

\* createTask for a task applyDefaults has returned: the payload's title,
\* description, Source, Due date and parent entries, in a repo that has cached
\* the database's schema
CreatePayload ==
    /\ call.op = "applyDefaults"
    /\ LET repo == cacheOf(database)
           frame == beginTask(repo, call.output, <<1>>, Null)
       IN call' = [op |-> "createTask", input |-> call.output, given |-> call.input,
                   output |-> finishPayload(repo, frame, <<"h","t","t","p">>)]
    /\ UNCHANGED <<now, http, pipe, req, net, repoVars, storeVars, completedUpdates, fetches,
                   llmFailed>>

(***************************************************************************)
(* Specifications.  Spec: createFromParsedTasks called by concurrent       *)
(* requests.  SpecText: one createTaskFromText request from its text to    *)
(* its pages.                                                              *)
(***************************************************************************)

InitCommon ==
    /\ pipe = [r \in Reqs |-> idlePipe]
    /\ req = [r \in Reqs |-> idleReq]
    /\ net = [r \in Reqs |-> NoCall]
    /\ cachedProperties = JNull
    /\ normalizedPropertyNames = <<>>
    /\ parentRelationProperty = Null
    /\ pages = <<>>
    /\ everOptions = optionPairs(database)
    /\ completedUpdates = {}
    /\ fetches = 0
    /\ llmFailed = [r \in Reqs |-> FALSE]
    /\ http = idleHttp
    /\ call = NoApplication

Init ==
    /\ now \in {CHOOSE day \in Days : day.y = 2026}
    /\ database \in Schemas
    /\ InitCommon

Store(r) ==
    \/ DatabasesRetrieve(r)
    \/ DatabasesUpdate(r)
    \/ PagesCreate(r)
    \/ CallFails(r)
    \/ RetrieveReturns(r)
    \/ UpdateReturns(r)
    \/ CreateReturns(r)

Next ==
    \E r \in Reqs :
        \/ \E tasks \in ParsedForests : CreateFromParsedTasks(r, tasks)
        \/ Store(r)

Spec == Init /\ [][Next]_vars

InitText ==
    /\ now \in Days
    /\ database \in Schemas
    /\ InitCommon

NextText ==
    \/ \E text \in Texts : CreateTaskFromText(1, text) /\ UNCHANGED http
    \/ \E rawTasks \in RawAnswers : ExtractionReturns(1, rawTasks)
    \/ ExtractionFails(1)
    \/ ResolutionReturns(1)
    \/ ResolutionFails(1)
    \/ Store(1)

SpecText == InitText /\ [][NextText]_vars

\* the answers that differ in the shape of their trees and in their date hints
TreeAnswers == RawAnswers \ {<<task>> : task \in RawFieldTasks}

\* one run of runTaskParsingPipeline on its own, in which every model call
\* that was issued settles: the awaited generateObject promise resolves or rejects
NextPipeline ==
    \/ \E text \in Texts : CreateTaskFromText(1, text) /\ UNCHANGED http
    \/ \E rawTasks \in TreeAnswers : ExtractionReturns(1, rawTasks)
    \/ ExtractionFails(1)
    \/ ResolutionReturns(1)
    \/ ResolutionFails(1)

SpecPipeline ==
    /\ InitText
    /\ [][NextPipeline]_vars
    /\ WF_vars(ExtractionFails(1)
                  \/ \E rawTasks \in TreeAnswers : ExtractionReturns(1, rawTasks))
    /\ WF_vars(ResolutionFails(1) \/ ResolutionReturns(1))

\* one HTTP request from its arrival to its reply
NextHttp ==
    \/ \E request \in HttpRequests : Receive(request)
    \/ HealthRoute
    \/ ValidationFails
    \/ PostTask
    \/ TaskReply
    \/ ErrorReply
    \/ \E rawTasks \in RawAnswers : ExtractionReturns(1, rawTasks)
    \/ ExtractionFails(1)
    \/ ResolutionReturns(1)
    \/ ResolutionFails(1)
    \/ Store(1)

SpecHttp == InitText /\ [][NextHttp]_vars

\* one function applied once
NextPure ==
    \/ \E input \in SafeTasksInputs : SafeTasks(input)
    \/ \E task \in DefaultsInputs : ApplyDefaults(task)
    \/ \E value \in DueDateInputs : NormalizeDueDate(value)
    \/ \E value \in NaturalDateInputs, day \in WeekDays : ParseNaturalDate(value, day)
    \/ CreatePayload
    \/ \E cached \in {JNull} \cup {[t |-> "object", v |-> properties] : properties \in EnsureSchemas},
          k \in 1..4, optionName \in OptionInputs :
           EnsureSelectOption(cached, k, optionName)
    \/ WriteOption
    \/ \E properties \in ResolveSchemas, desiredName \in DesiredNames :
           ResolvePropertyName(properties, desiredName)

SpecPure == InitText /\ [][NextPure]_vars

(***************************************************************************)
(* Properties.                                                             *)
(***************************************************************************)

\* the nodes of a forest, parents before their subtasks
RECURSIVE treeNodes(_)
treeNodes(tasks) ==
    IF tasks = <<>> THEN <<>>
    ELSE <<Head(tasks)>> \o treeNodes(Head(tasks).subtasks) \o treeNodes(Tail(tasks))

\* the paths of a forest's nodes in the same order
RECURSIVE preorderPaths(_, _, _)
preorderPaths(tasks, prefix, i) ==
    IF i > Len(tasks) THEN <<>>
    ELSE <<Append(prefix, i)>> \o preorderPaths(tasks[i].subtasks, Append(prefix, i), 1)
         \o preorderPaths(tasks, prefix, i + 1)

pagesOf(r) == SelectSeq(pages, LAMBDA page : page.req = r)

canonical(task) ==
    /\ task.priority \in Range(priorityValues)
    /\ task.status \in Range(statusValues)
    /\ task.effort \in Range(effortValues)

\* C1: whenever runTaskParsingPipeline returns, its list is non-empty and every
\* node of every tree has a priority, a status and an effort of the enumerations;
\* the list safeTasks makes of an empty answer is non-empty and canonical too.
C1_ReturnsCanonicalTasks ==
    /\ pipe[1].pc = "returned" =>
           /\ Len(pipe[1].result) > 0
           /\ \A i \in DOMAIN treeNodes(pipe[1].result) :
                  canonical(treeNodes(pipe[1].result)[i])
    /\ \A text \in Texts :
           /\ Len(safeTasks(<<>>, text)) > 0
           /\ \A i \in DOMAIN safeTasks(<<>>, text) :
                  canonical(applyDefaults(safeTasks(<<>>, text)[i], now))

\* the pipeline returned a task the model gave as " URGENT " and "Doing"
C1_Witness ==
    /\ pipe[1].pc = "returned"
    /\ \E i \in DOMAIN pipe[1].result :
           /\ pipe[1].result[i].priority = priorityValues[4]
           /\ pipe[1].result[i].status = statusValues[2]

\* C2: every task node runTaskParsingPipeline returns has a taskType that is a
\* non-empty string.
C2_TaskTypeNonEmpty ==
    pipe[1].pc = "returned" =>
        \A i \in DOMAIN treeNodes(pipe[1].result) :
            /\ treeNodes(pipe[1].result)[i].taskType # Undefined
            /\ treeNodes(pipe[1].result)[i].taskType # <<>>

\* C3: after normalization and defaulting every node of every tree has a
\* non-empty title, so no page is created with an empty title.
C3_TitleNonEmpty ==
    /\ pipe[1].pc \in {"enriching", "returned"} =>
           \A i \in DOMAIN treeNodes(pipe[1].tasks) : treeNodes(pipe[1].tasks)[i].title # <<>>
    /\ \A i \in DOMAIN pages : pages[i].properties[1].value # <<>>

\* C4: once a model call of the request has failed the pipeline has failed,
\* createFromParsedTasks is never called and no page is created nor option
\* added for it; and the pipeline fails only when a model call failed.
C4_ModelFailureStopsRequest ==
    /\ llmFailed[1] =>
           /\ pipe[1].pc = "failed"
           /\ req[1].pc = "idle"
           /\ net[1] = NoCall
           /\ pages = <<>>
           /\ completedUpdates = {}
    /\ pipe[1].pc = "failed" => llmFailed[1]

\* the due-date call of a subtask failed after the extraction had succeeded
C4_Witness ==
    /\ llmFailed[1]
    /\ pipe[1].pc = "failed"
    /\ \E n \in DOMAIN pipe[1].nodes : Len(n) >= 2 /\ pipe[1].nodes[n].phase = "failed"

\* C5: over all requests and interleavings databases.retrieve is issued at most
\* once.
C5_FetchedAtMostOnce == fetches <= 1

\* request r issues a schema-update call in this step
issuesUpdate(r) ==
    /\ net'[r].kind = "update" /\ net'[r].state = "sent"
    /\ ~(net[r].kind = "update" /\ net[r].state = "sent")

\* the update call of request r is answered and taken in by it in this step
takesUpdate(r) ==
    /\ net[r].kind = "update" /\ net[r].state = "answered"
    /\ net'[r] # net[r]

\* C6 (as stated): once an update adding a value to a property has been cached,
\* no later ensureSelectOption call issues an update for that property and value.
C6_NoLaterUpdate ==
    [][\A r \in Reqs :
           issuesUpdate(r) =>
               <<net'[r].property, net'[r].value.name>> \notin completedUpdates]_vars

\* C6 (amended): an update call is issued only for a value the cached options of
\* the property lack, and its list is those cached options plus the value; when
\* its response is taken in, the cached options of the property hold the value.
C6_UpdateAppendsMissingOption ==
    [][\A r \in Reqs :
           /\ issuesUpdate(r) =>
                  /\ ~hasOption(propertyNamed(cachedProperties'.v, net'[r].property).options,
                                net'[r].value.name)
                  /\ net'[r].options =
                         Append(propertyNamed(cachedProperties'.v, net'[r].property).options,
                                net'[r].value.name)
           /\ takesUpdate(r) =>
                  hasOption(propertyNamed(cachedProperties'.v, net[r].property).options,
                            net[r].value.name)]_vars

\* a subtask page carries a value whose update was cached before: the second
\* ensureSelectOption call for it issued no update
C6_Witness ==
    \E i \in DOMAIN pages :
        /\ Len(pages[i].path) >= 2
        /\ \E j \in DOMAIN pages[i].properties :
               /\ pages[i].properties[j].shape = "select"
               /\ <<pages[i].properties[j].key, pages[i].properties[j].value>>
                      \in completedUpdates
        /\ \E k \in DOMAIN pages :
               /\ k < i /\ pages[k].req = pages[i].req /\ Len(pages[k].path) = 1
               /\ \E j \in DOMAIN pages[k].properties :
                      /\ pages[k].properties[j].shape = "select"
                      /\ <<pages[k].properties[j].key, pages[k].properties[j].value>>
                             \in completedUpdates

\* a frame past its k-th option carries what ensureSelectOption binds it to
\* when that is a status-typed property
carriesStatus(frame, k, bound) ==
    (/\ bound.kind = "return"
     /\ bound.value.propertyType = "status"
     /\ bound.value.name # Undefined) =>
        \E j \in DOMAIN frame.properties :
            frame.properties[j] = [key |-> bound.value.propertyName, shape |-> "status",
                                   value |-> optionField(frame.task, k)]

\* C7: no update call is outstanding for a status-typed property; a frame past
\* an option that resolves to a status-typed property carries the task's value
\* under that property's name, in the options or not; and the cache changes
\* only when the response of a retrieve or update call is taken in.
C7_StatusNeverUpdated ==
    /\ [](\A r \in Reqs :
             /\ net[r].kind = "update" =>
                    /\ net[r].type \in {"select", "multi_select"}
                    /\ propertyNamed(database, net[r].property).type # "status"
             /\ \A n \in DOMAIN req[r].stack : \A k \in 1..4 :
                    k < req[r].stack[n].stage =>
                        carriesStatus(req[r].stack[n], k,
                            ensureSelectOption(Repo, logicalNames[k],
                                               optionField(req[r].stack[n].task, k))))
    /\ [][repoVars' # repoVars =>
              \E r \in Reqs : /\ net[r].kind \in {"retrieve", "update"}
                              /\ net[r].state = "answered"
                              /\ net'[r] # net[r]]_vars

\* a page carries a status value that its status-typed property does not list
C7_Witness ==
    \E i \in DOMAIN pages : \E j \in DOMAIN pages[i].properties :
        /\ pages[i].properties[j].shape = "status"
        /\ hasProperty(database, pages[i].properties[j].key)
        /\ propertyNamed(database, pages[i].properties[j].key).type = "status"
        /\ ~hasOption(propertyNamed(database, pages[i].properties[j].key).options,
                      pages[i].properties[j].value)

\* wherever a page carries, under a database property of one of the types, the
\* task's value of one of the four logical properties, the database held that
\* option before the page was created
optionsPrecedePages(types) ==
    \A i \in DOMAIN pages : \A j \in DOMAIN pages[i].properties :
        (/\ pages[i].properties[j].shape \in {"select", "multi_select", "status"}
         /\ hasProperty(database, pages[i].properties[j].key)
         /\ propertyNamed(database, pages[i].properties[j].key).type \in types
         /\ \E k \in 1..4 :
                pages[i].properties[j].value =
                    optionField(nodeAt(req[pages[i].req].tasks, pages[i].path), k)) =>
            <<pages[i].properties[j].key, pages[i].properties[j].value>> \in everOptions

C9_ParentBeforeChildInOrder ==
    \A r \in Reqs :
        /\ Len(pagesOf(r)) <= Len(preorderPaths(req[r].tasks, <<>>, 1))
        /\ \A i \in DOMAIN pagesOf(r) :
               /\ pagesOf(r)[i].path = preorderPaths(req[r].tasks, <<>>, 1)[i]
               /\ IF Len(pagesOf(r)[i].path) = 1 THEN pagesOf(r)[i].parentPageId = Null
                  ELSE \E k \in 1..(i - 1) :
                           /\ pagesOf(r)[k].path =
                                  SubSeq(pagesOf(r)[i].path, 1, Len(pagesOf(r)[i].path) - 1)
                           /\ pagesOf(r)[k].id = pagesOf(r)[i].parentPageId
        /\ (net[r].kind = "create" /\ net[r].state = "sent") =>
               /\ Len(pagesOf(r)) < Len(preorderPaths(req[r].tasks, <<>>, 1))
               /\ net[r].path = preorderPaths(req[r].tasks, <<>>, 1)[Len(pagesOf(r)) + 1]

\* a request created a task, its subtask, the subtask's subtask and then the
\* second subtask, while the other request created a page in between
C9_Witness ==
    \E r \in Reqs :
        /\ Len(pagesOf(r)) = 4
        /\ pagesOf(r)[3].path = <<1, 1, 1>>
        /\ pagesOf(r)[4].path = <<1, 2>>
        /\ \E i \in DOMAIN pages : i > 1 /\ i < Len(pages) /\ pages[i].req # r

\* results mirror tasks: one CreatedTask per task in order, echoing it, with the
\* id of the page created for it, and so on through the subtasks
RECURSIVE mirrors(_, _, _, _)
mirrors(results, tasks, prefix, r) ==
    /\ Len(results) = Len(tasks)
    /\ \A i \in DOMAIN tasks :
           /\ results[i].task = tasks[i]
           /\ \E k \in DOMAIN pages :
                  /\ pages[k].req = r /\ pages[k].path = Append(prefix, i)
                  /\ pages[k].id = results[i].id
           /\ mirrors(results[i].subtasks, tasks[i].subtasks, Append(prefix, i), r)

\* C10: when createFromParsedTasks succeeds its result mirrors its input, and
\* one page was created per tree node.
C10_ResultMirrorsInput ==
    \A r \in Reqs :
        req[r].pc = "done" =>
            /\ mirrors(req[r].results, req[r].tasks, <<>>, r)
            /\ Len(pagesOf(r)) = Len(treeNodes(req[r].tasks))

\* both requests succeeded, one of them with the tree of four nodes
C10_Witness ==
    /\ \A r \in Reqs : req[r].pc = "done"
    /\ \E r \in Reqs : Len(treeNodes(req[r].tasks)) = 4 /\ Len(req[r].results) = 1

\* C11: a request whose store call failed has failed with that call as its
\* error and has no call outstanding; from then on it issues no call and no
\* page is created for it; and no step removes or changes a created page.
C11_FailureAbortsWithoutRollback ==
    /\ [](\A r \in Reqs :
             req[r].pc = "failed" =>
                 /\ net[r] = NoCall
                 /\ req[r].error \in {"retrieve", "update", "create"})
    /\ [][/\ Len(pages') >= Len(pages)
          /\ SubSeq(pages', 1, Len(pages)) = pages
          /\ \A r \in Reqs :
                 /\ (net[r].kind # "none" /\ net[r].state = "sent" /\ net'[r] = NoCall) =>
                        req'[r].pc = "failed" /\ req'[r].error = net[r].kind
                 /\ req[r].pc = "failed" =>
                        /\ req'[r] = req[r]
                        /\ net'[r] = NoCall
                        /\ SelectSeq(pages', LAMBDA page : page.req = r) = pagesOf(r)]_vars

\* a request failed on a create call after two of its four pages were created,
\* and the page created last is the other request's
C11_Witness ==
    \E r \in Reqs :
        /\ req[r].pc = "failed" /\ req[r].error = "create"
        /\ Len(pagesOf(r)) = 2
        /\ Len(treeNodes(req[r].tasks)) = 4
        /\ pages[Len(pages)].req # r

\* whether the database has a relation-typed property of that name
relationNamed(name) ==
    hasProperty(database, name) /\ propertyNamed(database, name).type = "relation"

\* the parent relation property the claim names for the database, or Null
expectedRelation ==
    IF relationNamed(<<"P","a","r","e","n","t"," ","t","a","s","k">>)
    THEN <<"P","a","r","e","n","t"," ","t","a","s","k">>
    ELSE IF relationNamed(<<"P","a","r","e","n","t"," ","T","a","s","k">>)
    THEN <<"P","a","r","e","n","t"," ","T","a","s","k">>
    ELSE IF relationNamed(<<"P","a","r","e","n","t">>) THEN <<"P","a","r","e","n","t">>
    ELSE Null

relationEntries(page) ==
    {j \in DOMAIN page.properties : page.properties[j].shape = "relation"}

\* C12: a top-level page carries no relation; a subtask page carries exactly
\* one, under the first relation-typed property among "Parent task", "Parent
\* Task", "Parent", referencing the id of its parent's page, when the database
\* has such a property, and none when it has not; the candidates are taken in
\* that order, and a candidate that is not a relation is passed over.
C12_ParentRelation ==
    /\ \A i \in DOMAIN pages :
           IF Len(pages[i].path) = 1 \/ expectedRelation = Null
           THEN relationEntries(pages[i]) = {}
           ELSE /\ \E j \in DOMAIN pages[i].properties :
                       /\ relationEntries(pages[i]) = {j}
                       /\ pages[i].properties[j].key = expectedRelation
                       /\ pages[i].properties[j].value = pages[i].parentPageId
                /\ \E k \in 1..(i - 1) :
                       /\ pages[k].req = pages[i].req
                       /\ pages[k].path = SubSeq(pages[i].path, 1, Len(pages[i].path) - 1)
                       /\ pages[k].id = pages[i].parentPageId
    /\ findRelationProperty(
           <<property(<<"P","a","r","e","n","t">>, "relation", <<>>),
             property(<<"P","a","r","e","n","t"," ","T","a","s","k">>, "relation", <<>>),
             property(<<"P","a","r","e","n","t"," ","t","a","s","k">>, "rich_text", <<>>)>>)
           = <<"P","a","r","e","n","t"," ","T","a","s","k">>

\* a subtask's subtask page carries the relation under "Parent", the last of
\* the candidates
C12_Witness ==
    /\ expectedRelation = <<"P","a","r","e","n","t">>
    /\ \E i \in DOMAIN pages :
           Len(pages[i].path) = 3 /\ Cardinality(relationEntries(pages[i])) = 1

\* C13: a request to a route other than /health whose x-api-key is not the
\* configured key is answered 401 {error: "unauthorized"}, and no model call
\* and no document-store call is made for it
C13_UnauthorizedNeverHandled ==
    (http.pc # "idle" /\ http.url # <<"/","h","e","a","l","t","h">> /\ http.apiKey # API_KEY) =>
        /\ pipe[1].pc = "idle" /\ pipe[1].calls = 0
        /\ req[1].pc = "idle" /\ net[1] = NoCall /\ fetches = 0 /\ pages = <<>>
        /\ http.sent => http.statusCode = 401 /\ http.payload = "unauthorized"

\* C14: an empty task list is replaced by exactly one synthetic task, titled
\* with the first 200 characters of the text or "Untitled task" when that is
\* empty and without subtasks; a non-empty list is used unchanged, in order
C14_EmptyListGuard ==
    call.op = "safeTasks" =>
        IF Len(call.input.tasks) = 0
        THEN /\ Len(call.output) = 1
             /\ call.output[1].title =
                    IF call.input.text = <<>>
                    THEN <<"U","n","t","i","t","l","e","d"," ","t","a","s","k">>
                    ELSE IF Len(call.input.text) <= 200 THEN call.input.text
                    ELSE SubSeq(call.input.text, 1, 200)
             /\ call.output[1].subtasks = JArr(<<>>)
             /\ applyDefaults(call.output[1], now).subtasks = <<>>
        ELSE call.output = call.input.tasks

\* the empty list was replaced for a text of 201 characters
C14_Witness ==
    /\ call.op = "safeTasks" /\ call.input.tasks = <<>>
    /\ Len(call.input.text) = 201 /\ Len(call.output) = 1
    /\ Len(call.output[1].title) = 200 /\ call.output[1].title[200] = "a"

\* the defaulting table: inputs in varied case and spacing, with their values
PriorityTable ==
    {<<Undefined, <<"L","o","w">>>>,
     <<<<>>, <<"L","o","w">>>>,
     <<<<"u","r","g","e","n","t">>, <<"U","r","g","e","n","t">>>>,
     <<<<" ","U","R","G","E","N","T"," ">>, <<"U","r","g","e","n","t">>>>,
     <<<<"U","r","g","e","n","t","\n">>, <<"U","r","g","e","n","t">>>>,
     <<<<"h","i","g","h">>, <<"H","i","g","h">>>>,
     <<<<"\t","H","i","g","h">>, <<"H","i","g","h">>>>,
     <<<<"m","e","d","i","u","m">>, <<"M","e","d","i","u","m">>>>,
     <<<<"M","E","D","I","U","M">>, <<"M","e","d","i","u","m">>>>,
     <<<<"m","e","d">>, <<"M","e","d","i","u","m">>>>,
     <<<<" ","M","e","d">>, <<"M","e","d","i","u","m">>>>,
     <<<<"l","o","w">>, <<"L","o","w">>>>,
     <<<<"L","o","w">>, <<"L","o","w">>>>,
     <<<<"a","s","a","p">>, <<"L","o","w">>>>,
     <<<<"u","r"," ","g","e","n","t">>, <<"L","o","w">>>>,
     <<<<"h","i","g","h","e","s","t">>, <<"L","o","w">>>>,
     <<<<"m">>, <<"L","o","w">>>>,
     <<<<" ">>, <<"L","o","w">>>>}

StatusTable ==
    {<<Undefined, <<"N","o","t"," ","S","t","a","r","t","e","d">>>>,
     <<<<>>, <<"N","o","t"," ","S","t","a","r","t","e","d">>>>,
     <<<<"i","n"," ","p","r","o","g","r","e","s","s">>, <<"I","n"," ","P","r","o","g","r","e","s","s">>>>,
     <<<<" ","I","n"," ","P","r","o","g","r","e","s","s"," ">>, <<"I","n"," ","P","r","o","g","r","e","s","s">>>>,
     <<<<"D","O","I","N","G">>, <<"I","n"," ","P","r","o","g","r","e","s","s">>>>,
     <<<<"D","o","i","n","g">>, <<"I","n"," ","P","r","o","g","r","e","s","s">>>>,
     <<<<"w","o","r","k","i","n","g","\n">>, <<"I","n"," ","P","r","o","g","r","e","s","s">>>>,
     <<<<"b","l","o","c","k","e","d">>, <<"B","l","o","c","k","e","d">>>>,
     <<<<" ","B","L","O","C","K","E","D">>, <<"B","l","o","c","k","e","d">>>>,
     <<<<"d","o","n","e">>, <<"D","o","n","e">>>>,
     <<<<"D","o","n","e">>, <<"D","o","n","e">>>>,
     <<<<"C","o","m","p","l","e","t","e","d">>, <<"D","o","n","e">>>>,
     <<<<"c","o","m","p","l","e","t","e"," ">>, <<"D","o","n","e">>>>,
     <<<<"n","o","t"," ","s","t","a","r","t","e","d">>, <<"N","o","t"," ","S","t","a","r","t","e","d">>>>,
     <<<<"N","o","t"," ","S","t","a","r","t","e","d">>, <<"N","o","t"," ","S","t","a","r","t","e","d">>>>,
     <<<<"t","o","d","o">>, <<"N","o","t"," ","S","t","a","r","t","e","d">>>>,
     <<<<"i","n","p","r","o","g","r","e","s","s">>, <<"N","o","t"," ","S","t","a","r","t","e","d">>>>,
     <<<<"i","n"," "," ","p","r","o","g","r","e","s","s">>, <<"N","o","t"," ","S","t","a","r","t","e","d">>>>,
     <<<<"f","i","n","i","s","h","e","d">>, <<"N","o","t"," ","S","t","a","r","t","e","d">>>>}

EffortTable ==
    {<<Undefined, <<"S">>>>,
     <<<<>>, <<"S">>>>,
     <<<<"m">>, <<"M">>>>,
     <<<<"M">>, <<"M">>>>,
     <<<<" ","M","e","d","i","u","m"," ">>, <<"M">>>>,
     <<<<"M","E","D">>, <<"M">>>>,
     <<<<"l">>, <<"L">>>>,
     <<<<"L">>, <<"L">>>>,
     <<<<"L","a","r","g","e">>, <<"L">>>>,
     <<<<" ","h","i","g","h">>, <<"L">>>>,
     <<<<"B","I","G">>, <<"L">>>>,
     <<<<"b","i","g","\t">>, <<"L">>>>,
     <<<<"s">>, <<"S">>>>,
     <<<<"S">>, <<"S">>>>,
     <<<<"s","m","a","l","l">>, <<"S">>>>,
     <<<<"x","l">>, <<"S">>>>,
     <<<<"l","o","w">>, <<"S">>>>,
     <<<<"h","u","g","e">>, <<"S">>>>}

\* C15: compared case-insensitively after trimming, normalizePriority,
\* normalizeStatus and normalizeEffort agree with the defaulting table, and
\* every other or absent value gets Low, Not Started and S
C15_DefaultingTable ==
    /\ \A row \in PriorityTable : normalizePriority(row[1]) = row[2]
    /\ \A row \in StatusTable : normalizeStatus(row[1]) = row[2]
    /\ \A row \in EffortTable : normalizeEffort(row[1]) = row[2]
    /\ \A n \in DOMAIN pipe[1].nodes :
           LET task == nodeAt(pipe[1].tasks, n)
           IN /\ \E row \in PriorityTable : row[2] = task.priority
              /\ \E row \in StatusTable : row[2] = task.status
              /\ \E row \in EffortTable : row[2] = task.effort

\* the answer with priority " URGENT ", status "Doing" and effort "BIG" has been defaulted
C15_Witness ==
    /\ pipe[1].pc = "returned" /\ Len(pipe[1].result) = 1
    /\ pipe[1].result[1].priority = <<"U","r","g","e","n","t">>
    /\ pipe[1].result[1].status = <<"I","n"," ","P","r","o","g","r","e","s","s">>
    /\ pipe[1].result[1].effort = <<"L">>

\* whether every node of a ParsedTaskInput tree holds canonical values
RECURSIVE canonicalInput(_)
canonicalInput(task) ==
    /\ canonical(task)
    /\ task.taskType # Undefined
    /\ task.dueDate = Undefined \/ (Len(task.dueDate) = 24 /\ dateParses(task.dueDate))
    /\ task.subtasks.t = "array"
    /\ \A i \in DOMAIN task.subtasks.v : canonicalInput(task.subtasks.v[i])

\* C16: applyDefaults returns a tree of canonical values (enumeration values in
\* their casing, due date absent or an ISO instant) as it is, at every node;
\* S, M, L and Not Started map to themselves
C16_DefaultsIdempotent ==
    /\ (call.op = "applyDefaults" /\ canonicalInput(call.input)) =>
           asInput(call.output) = call.input
    /\ call.op = "applyDefaults" =>
           applyDefaults(asInput(call.output), now) = call.output
    /\ \A value \in Range(effortValues) : normalizeEffort(value) = value
    /\ normalizeStatus(statusValues[1]) = statusValues[1]

\* a canonical tree of depth three with a due date has been through applyDefaults
C16_Witness ==
    /\ call.op = "applyDefaults" /\ canonicalInput(call.input)
    /\ Len(call.output.subtasks) = 2 /\ Len(call.output.subtasks[1].subtasks) = 2
    /\ call.output.subtasks[1].dueDate # Undefined
    /\ call.output.subtasks[1].status = statusValues[4]

\* the positions of the properties whose normalized key is the desired one, and
\* of those whose normalized key contains it or is contained in it
exactPositions(properties, desiredName) ==
    {i \in DOMAIN properties :
        normalizePropertyKey(properties[i].name) = normalizePropertyKey(desiredName)}

partialPositions(properties, desiredName) ==
    {i \in DOMAIN properties :
        \/ includes(normalizePropertyKey(properties[i].name), normalizePropertyKey(desiredName))
        \/ includes(normalizePropertyKey(desiredName), normalizePropertyKey(properties[i].name))}

first(positions) == CHOOSE i \in positions : \A j \in positions : i <= j

\* the property declared last among those that share the normalized key of property i
lastSharingKey(properties, i) ==
    LET sharing == {j \in DOMAIN properties :
                       normalizePropertyKey(properties[j].name)
                           = normalizePropertyKey(properties[i].name)}
    IN properties[CHOOSE j \in sharing : \A l \in sharing : l <= j]

\* C17 as stated: the exact normalized match when there is one; otherwise the
\* first property, in declared order, whose key contains or is contained in the
\* desired key; otherwise no match
C17_ExactThenFirstDeclared ==
    call.op = "resolvePropertyName" =>
        LET properties == call.input.properties
            exact == exactPositions(properties, call.input.desiredName)
            partial == partialPositions(properties, call.input.desiredName)
        IN IF exact # {}
           THEN /\ call.output.t = "object"
                /\ \E i \in exact : /\ call.output.name = properties[i].name
                                    /\ call.output.property = properties[i]
           ELSE IF partial # {}
           THEN /\ call.output.t = "object"
                /\ call.output.name = properties[first(partial)].name
                /\ call.output.property = properties[first(partial)]
           ELSE call.output = JNull

\* C17 amended: the name index holds one entry per normalized key, at the place
\* of the key's first declaration and naming the property declared last with
\* that key; the exact entry is returned when there is one, otherwise the first
\* entry whose key contains or is contained in the desired key, otherwise none
C17_ExactThenFirstIndexed ==
    call.op = "resolvePropertyName" =>
        LET properties == call.input.properties
            exact == exactPositions(properties, call.input.desiredName)
            partial == partialPositions(properties, call.input.desiredName)
        IN IF exact # {}
           THEN /\ call.output.t = "object"
                /\ call.output.property = lastSharingKey(properties, first(exact))
                /\ call.output.name = call.output.property.name
           ELSE IF partial # {}
           THEN /\ call.output.t = "object"
                /\ call.output.property = lastSharingKey(properties, first(partial))
                /\ call.output.name = call.output.property.name
           ELSE call.output = JNull

\* "Task type" resolved to "Task Type", declared after "Task types" and "Type"
C17_Witness ==
    /\ call.op = "resolvePropertyName"
    /\ call.input.desiredName = logicalNames[3]
    /\ Len(call.input.properties) = 3
    /\ call.input.properties[1].name = <<"T","a","s","k"," ","t","y","p","e","s">>
    /\ call.output.t = "object"
    /\ call.output.name = <<"T","a","s","k"," ","T","y","p","e">>

\* whether a due date string holds one of parseNaturalDate's keywords
hasKeyword(value) ==
    LET lower == trim(toLowerCase(value))
    IN \/ lower \in {<<"t","o","d","a","y">>, <<"t","o","m","o","r","r","o","w">>}
       \/ \E keyword \in {<<"b","y"," ","t","o","d","a","y">>,
                          <<"b","y"," ","t","o","m","o","r","r","o","w">>,
                          <<"n","e","x","t"," ","w","e","e","k">>,
                          <<"n","e","x","t"," ","m","o","n","t","h">>,
                          <<"t","h","i","s"," ","w","e","e","k">>} : includes(lower, keyword)

\* a due date that is absent, empty, or neither a keyword nor a date
dropped(value) ==
    value = Undefined \/ value = <<>> \/ (~hasKeyword(value) /\ ~dateParses(value))

dueDateEntries(properties) ==
    {i \in DOMAIN properties : properties[i].key = <<"D","u","e"," ","d","a","t","e">>}

C19_ExplicitDueDateNeverResolved ==
    \A n \in DOMAIN pipe[1].nodes :
        pipe[1].given[n] # Undefined =>
            /\ pipe[1].nodes[n].phase \notin {"resolving", "failed"}
            /\ pipe[1].pc = "returned" =>
                   nodeAt(pipe[1].result, n).dueDate = normalizeDueDate(pipe[1].given[n], now)

\* the title and the description of a task, joined by a space
joined(task) ==
    IF task.description = Undefined \/ task.description = <<>> THEN task.title
    ELSE task.title \o <<" ">> \o task.description

\* whether, in any case of its letters, a text holds one of the date hints
holdsHint(text) ==
    \E i \in 1..Len(text), hint \in {<<"t","o","d","a","y">>, <<"t","o","m","o","r","r","o","w">>,
                                     <<"n","e","x","t"," ","w","e","e","k">>,
                                     <<"n","e","x","t"," ","m","o","n","t","h">>,
                                     <<"t","h","i","s"," ","w","e","e","k">>,
                                     <<"b","y"," ">>, <<"d","u","e"," ">>} :
        /\ i + Len(hint) - 1 <= Len(text)
        /\ toLowerCase(SubSeq(text, i, i + Len(hint) - 1)) = hint

\* C20: for a node without a due date in the model's answer, the resolution call
\* is made when enrichDueDates reaches the node if and only if its title and
\* description, joined by a space, hold a date hint; without a hint no call is
\* made and the due date stays absent
C20_ResolutionCallIffHint ==
    /\ [](\A n \in DOMAIN pipe[1].nodes :
             pipe[1].given[n] = Undefined =>
                 /\ pipe[1].nodes[n].phase \in {"resolving", "failed"} =>
                        holdsHint(joined(nodeAt(pipe[1].tasks, n)))
                 /\ (pipe[1].pc = "returned" /\ ~holdsHint(joined(nodeAt(pipe[1].tasks, n)))) =>
                        nodeAt(pipe[1].result, n).dueDate = Undefined)
    /\ [][\A n \in DOMAIN pipe'[1].nodes :
             (/\ pipe'[1].given[n] = Undefined
              /\ pipe'[1].nodes[n].phase # "idle"
              /\ n \in DOMAIN pipe[1].nodes => pipe[1].nodes[n].phase = "idle") =>
                 (pipe'[1].nodes[n].phase = "resolving"
                      <=> holdsHint(joined(nodeAt(pipe'[1].tasks, n))))]_vars

\* "rent due" with description "x" got its resolution call, its subtask
\* "rent due" without a description got none, and the pipeline has returned
C20_Witness ==
    /\ pipe[1].pc = "returned" /\ Len(pipe[1].tasks) = 1
    /\ pipe[1].tasks[1].description = <<"x">>
    /\ pipe[1].given[<<1>>] = Undefined /\ pipe[1].given[<<1, 1>>] = Undefined
    /\ pipe[1].calls = 2
    /\ pipe[1].result[1].subtasks[1].dueDate = Undefined

\* C21: when runTaskParsingPipeline returns, enrichDueDates has completed for
\* every node of every tree; the returned list and every subtasks list hold the
\* tasks of the input at their positions, in whatever order the resolution
\* calls were answered; and each node's due date is the normalization of what
\* its own call returned (its own due date when it had one)
C21_JoinKeepsOrder ==
    pipe[1].pc = "returned" =>
        /\ \A n \in DOMAIN pipe[1].nodes : pipe[1].nodes[n].phase = "done"
        /\ pathsOf(pipe[1].result, <<>>) = DOMAIN pipe[1].nodes
        /\ preorderPaths(pipe[1].result, <<>>, 1) = preorderPaths(pipe[1].tasks, <<>>, 1)
        /\ \A n \in DOMAIN pipe[1].nodes :
               LET task == nodeAt(pipe[1].tasks, n)
                   returned == nodeAt(pipe[1].result, n)
               IN /\ [returned EXCEPT !.dueDate = Undefined, !.subtasks = <<>>]
                         = [task EXCEPT !.dueDate = Undefined, !.subtasks = <<>>]
                  /\ Len(returned.subtasks) = Len(task.subtasks)
                  /\ returned.dueDate =
                         normalizeDueDate(IF task.dueDate # Undefined THEN task.dueDate
                                          ELSE pipe[1].nodes[n].resolved, now)

\* the call of the second subtask was answered, with a date, before the call
\* of the first, which was answered null; the result keeps the input's order
C21_Witness ==
    /\ pipe[1].pc = "returned" /\ <<1, 2>> \in pipe[1].overtook
    /\ Len(pipe[1].result) = 2 /\ Len(pipe[1].result[1].subtasks) = 2
    /\ pipe[1].result[1].subtasks[1].title[1] = "b"
    /\ pipe[1].result[1].subtasks[1].dueDate = Undefined
    /\ pipe[1].result[1].subtasks[2].title[1] = "c"
    /\ pipe[1].result[1].subtasks[2].dueDate # Undefined
    /\ pipe[1].result[1].dueDate = Undefined

\* the number of a calendar day, counted from 2026-01-01 as day 1, and its
\* weekday (0 = Sunday): 2026-01-01 was a Thursday
dayNumber(dt) == daysBefore(dt.y, dt.m) + dt.d

weekdayOf(dt) == (dayNumber(dt) + 3) % 7

\* the days from the clock's day to the day of an ISO instant
daysAhead(instant) == dayNumber(newDate(instant)) - dayNumber(now)

startsDay(instant) ==
    /\ instant # Undefined /\ Len(instant) = 24 /\ dateParses(instant)
    /\ SubSeq(instant, 11, 24) = <<"T","0","0",":","0","0",":","0","0",".","0","0","0","Z">>

unbound == [name |-> Undefined, type |-> "undefined", options |-> <<>>]

boundTo(repo, propName) ==
    LET wanted(lower) ==
            IF includes(lower, <<"s","t","a","t","u","s">>) THEN "status"
            ELSE IF includes(lower, <<"t","y","p","e">>) THEN "multi_select"
            ELSE "none"
        only(properties, typed) ==
            IF Cardinality(typed) = 1 THEN properties[CHOOSE i \in typed : TRUE] ELSE unbound
        ofType(properties, type) ==
            only(properties, {i \in DOMAIN properties : properties[i].type = type})
        orByType(byName) ==
            IF byName.t = "object" THEN byName.property
            ELSE ofType(cachedSchema(repo), wanted(toLowerCase(propName)))
    IN orByType(resolvePropertyName(repo, propName))

\* a frame past its k-th option, whose value is given and whose logical name is
\* bound to a property, carries under that property's name and in the shape of
\* its type the value (or that of a later option bound to the same property)
carriesBound(frame, k, bound) ==
    (/\ k < frame.stage
     /\ optionField(frame.task, k) \notin {Undefined, <<>>}
     /\ bound.name # Undefined) =>
        \E j \in DOMAIN frame.properties :
            /\ frame.properties[j].key = bound.name
            /\ frame.properties[j].shape = shapeFor(bound.type)
            /\ \E i \in k..4 : frame.properties[j].value = optionField(frame.task, i)

\* C23: an update call is outstanding only for a property of type select or
\* multi_select, and it is issued only when the value is absent from the cached
\* options of the property the logical name is bound to; otherwise (the value
\* is among the options, or the type is none of select, multi_select, status)
\* the option is returned with the property's name and type, which createTask
\* writes, without an update call; the cached schema and the name index change
\* only when the response of a retrieve or update call is taken in
C23_UpdateOnlyForMissingOption ==
    /\ [](/\ \A r \in Reqs :
                 net[r].kind = "update" =>
                     /\ net[r].type \in {"select", "multi_select"}
                     /\ net[r].value = [name |-> net[r].options[Len(net[r].options)],
                                        propertyName |-> net[r].property,
                                        propertyType |-> net[r].type]
          /\ (\E r \in Reqs : req[r].stack # <<>>) =>
                 \A k \in 1..4 :
                     LET carry(bound) ==
                             \A r \in Reqs : \A n \in DOMAIN req[r].stack :
                                 carriesBound(req[r].stack[n], k, bound)
                     IN carry(boundTo(Repo, logicalNames[k])))
    /\ [][\A r \in Reqs :
             issuesUpdate(r) =>
                 LET frame == req'[r].stack[Len(req'[r].stack)]
                     bound == boundTo(Repo', logicalNames[frame.stage])
                 IN /\ bound.name = net'[r].property /\ bound.type = net'[r].type
                    /\ net'[r].value.name = optionField(frame.task, frame.stage)
                    /\ \A i \in DOMAIN bound.options : bound.options[i] # net'[r].value.name]_vars
    /\ [][(cachedProperties' # cachedProperties
             \/ normalizedPropertyNames' # normalizedPropertyNames) =>
              \E r \in Reqs : /\ net[r].kind \in {"retrieve", "update"}
                              /\ net[r].state = "answered"
                              /\ net'[r] # net[r]]_vars

\* a page carries the task type "Task", which the multi_select property
\* "Task Type" listed already and no update added, next to a priority that an
\* update added
C23_Witness ==
    \E i \in DOMAIN pages :
        /\ \E j \in DOMAIN pages[i].properties :
               /\ pages[i].properties[j] =
                      [key |-> <<"T","a","s","k"," ","T","y","p","e">>, shape |-> "multi_select",
                       value |-> <<"T","a","s","k">>]
               /\ <<pages[i].properties[j].key, pages[i].properties[j].value>>
                      \notin completedUpdates
        /\ \E j \in DOMAIN pages[i].properties :
               /\ pages[i].properties[j].shape = "select"
               /\ <<pages[i].properties[j].key, pages[i].properties[j].value>>
                      \in completedUpdates

\* what ensureSelectOption returned in the application call holds
ensuredBy(application) ==
    IF application.op = "writeOption" THEN application.ensured ELSE application.output

\* the properties of a schema that have the type a logical name asks for when
\* no name matches: status for "status", multi_select for "type"
typedFor(properties, propName) ==
    LET ofType(type) == {i \in DOMAIN properties : properties[i].type = type}
        lower == toLowerCase(propName)
    IN IF includes(lower, <<"s","t","a","t","u","s">>) THEN ofType("status")
       ELSE IF includes(lower, <<"t","y","p","e">>) THEN ofType("multi_select")
       ELSE {}

\* C24: when no property resolves by name, ensureSelectOption binds the value
\* to the only status-typed property (logical name with "status") or the only
\* multi_select property (logical name with "type"); when there is none or more
\* than one, or the name holds neither word, it returns the option label alone,
\* without property name or type and without an update call, and createTask
\* writes the value under the logical name
C24_TypeFallback ==
    (/\ call.op \in {"ensureSelectOption", "writeOption"}
     /\ call.input.cachedProperties.t = "object"
     /\ call.input.optionName \notin {Undefined, <<>>}
     /\ resolvePropertyName(repoOf(call.input.cachedProperties),
                            logicalNames[call.input.k]) = JNull) =>
        LET properties == call.input.cachedProperties.v
            typed == typedFor(properties, logicalNames[call.input.k])
            ensured == ensuredBy(call)
        IN /\ call.input.k \in {2, 4} => typed = {}
           /\ IF Cardinality(typed) = 1
              THEN /\ ensured.value.name = call.input.optionName
                   /\ \E i \in typed : /\ ensured.value.propertyName = properties[i].name
                                       /\ ensured.value.propertyType = properties[i].type
                   /\ call.op = "writeOption" =>
                          \E j \in DOMAIN call.output :
                              /\ call.output[j].key = ensured.value.propertyName
                              /\ call.output[j].value = call.input.optionName
              ELSE /\ ensured = [kind |-> "return",
                                 value |-> [name |-> call.input.optionName,
                                            propertyName |-> Undefined,
                                            propertyType |-> "undefined"]]
                   /\ call.op = "writeOption" =>
                          /\ Len(call.output) = 2
                          /\ call.output[2].key = logicalNames[call.input.k]
                          /\ call.output[2].value = call.input.optionName

\* the status "Blocked" was written under "Status" in a schema whose only
\* candidates are two status-typed properties named "State" and "Phase"
C24_Witness ==
    /\ call.op = "writeOption" /\ call.input.k = 1
    /\ call.input.cachedProperties.t = "object"
    /\ Cardinality(typedFor(call.input.cachedProperties.v, logicalNames[1])) = 2
    /\ call.ensured.value.propertyName = Undefined
    /\ Len(call.output) = 2
    /\ call.output[2] = [key |-> <<"S","t","a","t","u","s">>, shape |-> "status",
                         value |-> statusValues[3]]

\* C25: a value of Status, Priority, Task type or Effort level written into a
\* page payload under a property of the database has the shape of that
\* property's type: multi_select, status or select, and never a shape that
\* differs from the type of the property it is written to
C25_ShapeMatchesType ==
    \A i \in DOMAIN pages : \A j \in DOMAIN pages[i].properties :
        (/\ pages[i].properties[j].shape \in {"select", "multi_select", "status"}
         /\ hasProperty(database, pages[i].properties[j].key)) =>
            pages[i].properties[j].shape =
                propertyNamed(database, pages[i].properties[j].key).type

\* the values a payload carries in one of the three option shapes
optionValues(properties) ==
    {properties[j].value : j \in {i \in DOMAIN properties :
        properties[i].shape \in {"select", "multi_select", "status"}}}

given(task, stages) ==
    {optionField(task, k) : k \in stages} \ {Undefined, <<>>}

\* C26: for an absent or empty value ensureSelectOption returns an empty
\* result, with the schema cached or not and without a call; no update call is
\* ever outstanding for such a value; a payload carries option values of given
\* fields only; and the page of a task without a task type is created with
\* its title, status, priority and effort
C26_AbsentValueIsNoOp ==
    /\ \A k \in 1..4 : \A value \in {Undefined, <<>>} :
           ensureSelectOption(Repo, logicalNames[k], value) =
               [kind |-> "return",
                value |-> [name |-> Undefined, propertyName |-> Undefined,
                           propertyType |-> "undefined"]]
    /\ \A r \in Reqs :
           /\ net[r].kind = "update" => net[r].value.name \notin {Undefined, <<>>}
           /\ \A n \in DOMAIN req[r].stack :
                  optionValues(req[r].stack[n].properties)
                      \subseteq given(req[r].stack[n].task,
                                       (1..(req[r].stack[n].stage - 1)) \cap (1..4))
    /\ \A i \in DOMAIN pages :
           LET task == nodeAt(req[pages[i].req].tasks, pages[i].path)
           IN /\ optionValues(pages[i].properties) \subseteq given(task, 1..4)
              /\ task.taskType \in {Undefined, <<>>} =>
                     /\ pages[i].properties[1].shape = "title"
                     /\ pages[i].properties[1].value = task.title
                     /\ optionValues(pages[i].properties) = given(task, {1, 2, 4})
                     /\ Cardinality({j \in DOMAIN pages[i].properties :
                            pages[i].properties[j].shape
                                \in {"select", "multi_select", "status"}}) = 3

\* the page of the task "G", whose task type is empty, was created with three
\* option values and its parent relation, and its request has finished
C26_Witness ==
    \E i \in DOMAIN pages :
        /\ req[pages[i].req].pc = "done"
        /\ nodeAt(req[pages[i].req].tasks, pages[i].path).taskType = <<>>
        /\ pages[i].properties[1].value = <<"G">>
        /\ Cardinality(optionValues(pages[i].properties)) >= 2
        /\ relationEntries(pages[i]) # {}

\* C27: across interleaved requests options are only added: the list an update
\* call sends for a property holds every option that an update call completed
\* before it added to that property, and once every request has finished the
\* database and the cache hold every option an update call added
C27_OptionsOnlyAdded ==
    /\ [][\A r \in Reqs :
             issuesUpdate(r) =>
                 \A added \in completedUpdates :
                     added[1] = net'[r].property =>
                         hasOption(net'[r].options, added[2])]_vars
    /\ []((\A r \in Reqs : req[r].pc = "done") =>
             \A added \in completedUpdates :
                 /\ hasOption(propertyNamed(database, added[1]).options, added[2])
                 /\ hasOption(propertyNamed(cachedSchema(Repo), added[1]).options, added[2]))

\* whether a name index agrees with a cached schema: every original name in
\* the index is a key of the schema and stands under its own normalized key, the
\* normalized key of every key of the schema is in the index, and the index is
\* empty while nothing is cached
agrees(cached, index) ==
    LET schema == IF cached.t = "object" THEN cached.v ELSE <<>>
        key == [j \in DOMAIN schema |-> normalizePropertyKey(schema[j].name)]
    IN /\ \A i \in DOMAIN index :
              \E j \in DOMAIN schema :
                  schema[j].name = index[i].name /\ key[j] = index[i].norm
       /\ \A j \in DOMAIN schema : \E i \in DOMAIN index : index[i].norm = key[j]
       /\ cached = JNull => index = <<>>

\* C28: the name index and the cached schema agree in every state.  They agree
\* in the initial state, and every step either leaves both fields as they are
\* or is the taking of the response of a retrieve or an update call, which
\* replaces both together, builds both from that response, and leaves them in
\* agreement
C28_IndexAgreesWithCache ==
    /\ agrees(cachedProperties, normalizedPropertyNames)
    /\ [][(cachedProperties' # cachedProperties
              \/ normalizedPropertyNames' # normalizedPropertyNames) =>
             /\ agrees(cachedProperties', normalizedPropertyNames')
             /\ \E r \in Reqs :
                    /\ net[r].kind \in {"retrieve", "update"} /\ net[r].state = "answered"
                    /\ net'[r] # net[r]
                    /\ cachedProperties' = [t |-> "object", v |-> net[r].properties]
                    /\ {normalizedPropertyNames'[i].name :
                            i \in DOMAIN normalizedPropertyNames'}
                           = {net[r].properties[k].name : k \in DOMAIN net[r].properties}]_vars

\* the cache has been refreshed from the response of an update call while the
\* other request was in flight, and the index holds a name for every property
C28_Witness ==
    /\ completedUpdates # {}
    /\ \A r \in Reqs : req[r].pc \notin {"idle", "done", "failed"}
    /\ cachedProperties # JNull
    /\ Len(normalizedPropertyNames) = Len(cachedProperties.v)
    /\ Len(normalizedPropertyNames) >= 7
    /\ \E i \in DOMAIN cachedProperties.v, added \in completedUpdates :
           /\ cachedProperties.v[i].name = added[1]
           /\ hasOption(cachedProperties.v[i].options, added[2])

\* the metadata fetch of request r fails in this step
retrieveFails(r) ==
    /\ net[r].kind = "retrieve" /\ net[r].state = "sent"
    /\ net'[r] = NoCall

\* C29: a metadata fetch that fails leaves the three cache fields as they were,
\* and the cache is populated by nothing but a fetch whose response is taken,
\* so that until then cachedProperties is null, the index empty and no parent
\* relation known; the failure rejects createFromParsedTasks, and no page is
\* ever created for that request; a createFromParsedTasks call made while the
\* cache is unpopulated issues the fetch again
C29_FailedFetchLeavesCacheEmpty ==
    /\ [][\A r \in Reqs :
             retrieveFails(r) =>
                 /\ UNCHANGED repoVars
                 /\ req'[r].pc = "failed" /\ req'[r].error = "retrieve"
                 /\ req'[r].results = <<>>]_vars
    /\ [](cachedProperties = JNull =>
             normalizedPropertyNames = <<>> /\ parentRelationProperty = Null)
    /\ [][(cachedProperties = JNull /\ cachedProperties' # JNull) =>
             \E r \in Reqs : /\ net[r].kind = "retrieve" /\ net[r].state = "answered"
                             /\ net'[r] # net[r]]_vars
    /\ [](\A r \in Reqs :
             (req[r].pc = "failed" /\ req[r].error = "retrieve") =>
                 /\ net[r] = NoCall
                 /\ \A i \in DOMAIN pages : pages[i].req # r)
    /\ [][\A r \in Reqs :
             (req[r].pc = "idle" /\ req'[r].pc # "idle" /\ cachedProperties = JNull) =>
                 /\ net'[r].kind = "retrieve" /\ net'[r].state = "sent"
                 /\ fetches' = fetches + 1]_vars

\* the fetch of one request has failed, nothing is cached, and the call made
\* for the other request has issued the fetch a second time
C29_Witness ==
    \E r, other \in Reqs :
        /\ req[r].pc = "failed" /\ req[r].error = "retrieve"
        /\ cachedProperties = JNull /\ normalizedPropertyNames = <<>>
        /\ req[other].pc = "running"
        /\ net[other].kind = "retrieve" /\ net[other].state = "sent"
        /\ fetches = 2
        /\ pages = <<>>

\* the nodes of the run whose resolution call is outstanding
resolving == {n \in DOMAIN pipe[1].nodes : pipe[1].nodes[n].phase = "resolving"}

\* the nodes of the run for which enrichDueDates has been entered
entered == {n \in DOMAIN pipe[1].nodes : pipe[1].nodes[n].phase # "idle"}

\* C30: a run makes one extraction call, and no second one; it makes at most one
\* resolution call per node, namely for the nodes entered that carry no due date
\* and hold a date hint; a node is entered only when the resolution call of its
\* parent, if one was made, has returned; a run that waits has a call
\* outstanding, and if every call issued settles the run returns or rejects and
\* no call stays outstanding
C30_BoundedCalls ==
    /\ [](pipe[1].pc # "idle" =>
             /\ pipe[1].calls =
                    1 + Cardinality({n \in entered :
                            /\ nodeAt(pipe[1].tasks, n).dueDate = Undefined
                            /\ holdsHint(joined(nodeAt(pipe[1].tasks, n)))})
             /\ pipe[1].calls <= 1 + Cardinality(DOMAIN pipe[1].nodes))
    /\ [][/\ pipe[1].pc # "idle" => pipe'[1].pc \notin {"idle", "extracting"}
          /\ \A n \in DOMAIN pipe[1].nodes :
                 /\ n \in DOMAIN pipe'[1].nodes
                 /\ pipe[1].nodes[n].phase # "idle" =>
                        /\ pipe'[1].nodes[n].phase # "idle"
                        /\ pipe'[1].nodes[n].phase = "resolving" =>
                               pipe[1].nodes[n].phase = "resolving"]_vars
    /\ [](\A n \in entered :
             Len(n) > 1 =>
                 pipe[1].nodes[SubSeq(n, 1, Len(n) - 1)].phase \in {"joining", "done"})
    /\ [](pipe[1].pc = "enriching" => resolving # {})
    /\ pipe[1].pc = "extracting" ~> pipe[1].pc \in {"returned", "failed"}
    /\ pipe[1].pc = "extracting" ~> (pipe[1].pc \in {"returned", "failed"} /\ resolving = {})

\* a run of five calls has returned: the extraction, and among the resolution
\* calls that of "d today" and that of its subtask "e by 9", made after the
\* first returned; both gave a date
C30_Witness ==
    /\ pipe[1].pc = "returned"
    /\ pipe[1].calls = 5
    /\ Cardinality(DOMAIN pipe[1].nodes) = 5
    /\ \E n \in DOMAIN pipe[1].nodes :
           /\ Len(n) = 2
           /\ pipe[1].given[n] = Undefined /\ pipe[1].given[SubSeq(n, 1, 1)] = Undefined
           /\ nodeAt(pipe[1].result, n).dueDate # Undefined
           /\ nodeAt(pipe[1].result, SubSeq(n, 1, 1)).dueDate # Undefined
    /\ resolving = {}

====
